---- MODULE Spec2Model ----
(***************************************************************************)
(* Trail-condition prediction engine of stay-singletrack                   *)
(* (scripts/daily/generate-predictions.ts), followed by its report         *)
(* endpoint (src/app/api/report/route.ts) and its COTREX fetch script      *)
(* (scripts/etl/fetch-cotrex.ts).                                          *)
(*                                                                         *)
(* Number encodings (JavaScript doubles are modelled exactly, as integers  *)
(* or as fractions num/den with den > 0):                                  *)
(*   - a time is a count of half-hours of local wall-clock time since      *)
(*     January 1st 00:00 of year 0 of the model; every year has 365 days;  *)
(*   - a WeatherDay.date (a "YYYY-MM-DD" string) is the number of that     *)
(*     calendar day, counted in days from January 1st of year 0;           *)
(*   - temperatures are tenths of a degree Celsius, precipitation tenths   *)
(*     of a millimetre, elevations metres;                                 *)
(*   - aspect modifiers are hundredths, elevation and temperature          *)
(*     modifiers tenths;                                                   *)
(*   - latitude and longitude are thousandths of a degree, nullable: None  *)
(*     is a coordinate that is not a number (undefined, NaN).              *)
(* A nullable value is None (null / undefined) or Some(v).  A string the   *)
(* code takes apart (the access text) is a tuple of one-character strings. *)
(***************************************************************************)
EXTENDS Integers, Sequences, FiniteSets, TLC

None == <<>>
Some(v) == <<v>>
IsSome(x) == x # <<>>
Val(x) == x[1]

\* JavaScript truthiness of a nullable number: null and 0 are falsy.
TruthyNum(x) == IsSome(x) /\ Val(x) # 0
\* JavaScript truthiness of a nullable string: null and "" are falsy.
TruthyStr(x) == IsSome(x) /\ Val(x) # ""

\* Math.round on the fraction num/den (den > 0): the nearest integer, a half
\* rounded towards +Infinity.
MathRound(num, den) == (2 * num + den) \div (2 * den)

Max(a, b) == IF a > b THEN a ELSE b
Min(a, b) == IF a < b THEN a ELSE b

(***************************************************************************)
(* Strings: String.prototype.trim, toLowerCase, parseInt and the           *)
(* date-range regular expression.                                          *)
(***************************************************************************)
WhiteSpace == {" ", "\t", "\n"}

UpperCase ==
    <<"A", "B", "C", "D", "E", "F", "G", "H", "I", "J", "K", "L", "M",
      "N", "O", "P", "Q", "R", "S", "T", "U", "V", "W", "X", "Y", "Z">>
LowerCase ==
    <<"a", "b", "c", "d", "e", "f", "g", "h", "i", "j", "k", "l", "m",
      "n", "o", "p", "q", "r", "s", "t", "u", "v", "w", "x", "y", "z">>

UpperCaseSet == {UpperCase[i] : i \in 1..26}

LowerChar(c) ==
    IF c \in UpperCaseSet
    THEN LowerCase[CHOOSE i \in 1..26 : UpperCase[i] = c]
    ELSE c

ToLowerCase(s) == [i \in 1..Len(s) |-> LowerChar(s[i])]

RECURSIVE TrimStart(_)
TrimStart(s) ==
    IF s # <<>> /\ Head(s) \in WhiteSpace THEN TrimStart(Tail(s)) ELSE s

RECURSIVE TrimEnd(_)
TrimEnd(s) ==
    IF s # <<>> /\ s[Len(s)] \in WhiteSpace
    THEN TrimEnd(SubSeq(s, 1, Len(s) - 1))
    ELSE s

\* A trim that strips leading white space only.
TrimLeadingOnly(s) == TrimStart(s)

Trim(s) == TrimEnd(TrimStart(s))

DigitChars == <<"0", "1", "2", "3", "4", "5", "6", "7", "8", "9">>
DigitSet == {DigitChars[i] : i \in 1..10}
IsDigit(c) == c \in DigitSet
DigitVal(c) == (CHOOSE i \in 1..10 : DigitChars[i] = c) - 1

\* parseInt of a string of decimal digits.
RECURSIVE ParseInt(_)
ParseInt(s) ==
    IF s = <<>> THEN 0
    ELSE 10 * ParseInt(SubSeq(s, 1, Len(s) - 1)) + DigitVal(s[Len(s)])

AllDigits(s, from, n) ==
    /\ from + n - 1 <= Len(s)
    /\ \A k \in from..(from + n - 1) : IsDigit(s[k])

CharAt(s, i, c) == i <= Len(s) /\ s[i] = c

\* /(\d{1,2})\/(\d{1,2})-(\d{1,2})\/(\d{1,2})/ tried at position i with the
\* four groups taking g[1]..g[4] digits.
RangeMatchesAt(s, i, g) ==
    /\ AllDigits(s, i, g[1])
    /\ CharAt(s, i + g[1], "/")
    /\ AllDigits(s, i + g[1] + 1, g[2])
    /\ CharAt(s, i + g[1] + 1 + g[2], "-")
    /\ AllDigits(s, i + g[1] + g[2] + 2, g[3])
    /\ CharAt(s, i + g[1] + g[2] + g[3] + 2, "/")
    /\ AllDigits(s, i + g[1] + g[2] + g[3] + 3, g[4])

GroupLengths == {1, 2} \X {1, 2} \X {1, 2} \X {1, 2}

\* The quantifiers are greedy: the backtracking matcher prefers 2 digits over
\* 1 in the first group, then in the second, and so on.
Preferred(g, h) ==
    \E k \in 1..4 : (\A j \in 1..(k - 1) : g[j] = h[j]) /\ g[k] > h[k]

\* access.match(...): None when nothing matches, else the four captured
\* groups of the leftmost match.
DateRangeMatch(s) ==
    LET starts == {i \in 1..Len(s) :
                      IsDigit(s[i]) /\ \E g \in GroupLengths : RangeMatchesAt(s, i, g)}
    IN  IF starts = {} THEN None
        ELSE LET i == CHOOSE x \in starts : \A y \in starts : x <= y
                 cands == {g \in GroupLengths : RangeMatchesAt(s, i, g)}
                 g == CHOOSE x \in cands : \A y \in cands : x = y \/ Preferred(x, y)
                 p2 == i + g[1] + 1
                 p3 == p2 + g[2] + 1
                 p4 == p3 + g[3] + 1
             IN  Some(<<SubSeq(s, i, i + g[1] - 1),
                        SubSeq(s, p2, p2 + g[2] - 1),
                        SubSeq(s, p3, p3 + g[3] - 1),
                        SubSeq(s, p4, p4 + g[4] - 1)>>)

(***************************************************************************)
(* Dates: the Date constructor and getters, in local time.                 *)
(***************************************************************************)
Hours(h) == 2 * h
Days(d) == 48 * d
YearDays(y) == 365 * y

\* The days of a year before the first of month m (0-indexed; 12: the whole
\* year).
MonthStarts == <<0, 31, 59, 90, 120, 151, 181, 212, 243, 273, 304, 334, 365>>
DaysBeforeMonth(m) == MonthStarts[m + 1]

\* new Date(year, monthIndex, day): local midnight; a month index outside
\* 0..11 and a day outside the month carry over, as the constructor does.
NewDate(year, monthIndex, day) ==
    Days(YearDays(year + (monthIndex \div 12))
         + DaysBeforeMonth(monthIndex % 12) + day - 1)

DayOf(t) == t \div Days(1)
GetFullYear(t) == DayOf(t) \div 365
DayOfYear(t) == DayOf(t) % 365
\* Date.prototype.getMonth: 0-indexed.
GetMonth(t) ==
    LET d == DayOfYear(t)
    IN  CHOOSE m \in 0..11 : DaysBeforeMonth(m) <= d /\ d < DaysBeforeMonth(m + 1)
\* Date.prototype.getDate: the day of the month.
GetDate(t) == DayOfYear(t) - DaysBeforeMonth(GetMonth(t)) + 1

\* Date.prototype.setHours(h, 0, 0, 0): the same local day at h o'clock.
SetHours(t, h) == Days(DayOf(t)) + Hours(h)

\* new Date("YYYY-MM-DD"): a date-only ISO string is midnight UTC of that
\* day; tzOffset is the local zone's offset from UTC in hours (-7 for
\* America/Denver in winter, 0 for UTC).
ParseIsoDate(date, tzOffset) == Days(date) + Hours(tzOffset)

(***************************************************************************)
(* Prediction constants.                                                   *)
(***************************************************************************)
\* BASE_DRY_HOURS[key]: None is the undefined a missing key yields.
BASE_DRY_HOURS(key) ==
    CASE key = "Excessively drained" -> Some(6)
      [] key = "Well drained" -> Some(24)
      [] key = "Moderately well drained" -> Some(48)
      [] key = "Somewhat poorly drained" -> Some(72)
      [] key = "Poorly drained" -> Some(120)
      [] key = "Very poorly drained" -> Some(168)
      [] OTHER -> None

\* ASPECT_MODIFIERS[key], in hundredths.
ASPECT_MODIFIERS(key) ==
    CASE key = "S" -> Some(60)
      [] key = "SE" -> Some(70)
      [] key = "SW" -> Some(70)
      [] key = "E" -> Some(85)
      [] key = "W" -> Some(85)
      [] key = "NE" -> Some(110)
      [] key = "NW" -> Some(110)
      [] key = "N" -> Some(130)
      [] OTHER -> None

\* 2.5 mm, in tenths of a millimetre.
PRECIP_THRESHOLD_MM == 25

\* 6.5 degrees per 1000 m, in tenths of a degree.
LAPSE_RATE == 65

\* The literals isSeasonallyClosed compares the trimmed, lower-cased text to.
LitNo == <<"n", "o">>
LitAuthorized ==
    <<"a", "u", "t", "h", "o", "r", "i", "z", "e", "d", "/", "p",
      "e", "r", "m", "i", "t", "t", "e", "d", " ", "u", "s", "e",
      "r", " ", "o", "n", "l", "y">>
LitSeasonally == <<"s", "e", "a", "s", "o", "n", "a", "l", "l", "y">>

\* x * 3.28084 > feet, for an elevation x in metres.
FeetAbove(metres, feet) == metres * 328084 > feet * 100000

\* month >= 10 || month <= 3
IsWinter(month) == month >= 10 \/ month <= 3

(***************************************************************************)
(* isSeasonallyClosed(access, elevationMin); now is the value new Date()   *)
(* returns on the branch taken.                                            *)
(***************************************************************************)
\* RangeClosed with a range whose close date precedes its open date taken
\* to span the turn of the year.
RangeClosedWrapping(groups, now) ==
    LET year == GetFullYear(now)
        openDate == NewDate(year, ParseInt(groups[1]) - 1, ParseInt(groups[2]))
        closeDate == NewDate(year, ParseInt(groups[3]) - 1, ParseInt(groups[4]))
    IN  IF closeDate < openDate
        THEN now > closeDate /\ now < openDate
        ELSE now < openDate \/ now > closeDate

RangeClosed(groups, now) ==
    LET year == GetFullYear(now)
        openMonth == ParseInt(groups[1]) - 1
        openDay == ParseInt(groups[2])
        closeMonth == ParseInt(groups[3]) - 1
        closeDay == ParseInt(groups[4])
        openDate == NewDate(year, openMonth, openDay)
        closeDate == NewDate(year, closeMonth, closeDay)
    IN  now < openDate \/ now > closeDate

\* SeasonallyClosed with the winter months taken as December to March.
SeasonallyClosedDecToMar(elevationMin, now) ==
    LET month == GetMonth(now)
        elev == IF TruthyNum(elevationMin) THEN Val(elevationMin) ELSE 0
    IN  (month >= 11 \/ month <= 2) /\ FeetAbove(elev, 9500)

SeasonallyClosed(elevationMin, now) ==
    LET month == GetMonth(now)
        elev == IF TruthyNum(elevationMin) THEN Val(elevationMin) ELSE 0
    IN  IsWinter(month) /\ FeetAbove(elev, 9500)

isSeasonallyClosed(access, elevationMin, now) ==
    IF ~IsSome(access) \/ Val(access) = <<>> \/ Trim(Val(access)) = <<>>
    THEN FALSE
    ELSE LET trimmed == ToLowerCase(Trim(Val(access)))
             dateRangeMatch == DateRangeMatch(Val(access))
         IN  IF trimmed = LitNo \/ trimmed = LitAuthorized THEN TRUE
             ELSE IF IsSome(dateRangeMatch)
                  THEN RangeClosed(Val(dateRangeMatch), now)
             ELSE IF trimmed = LitSeasonally
                  THEN SeasonallyClosed(elevationMin, now)
             ELSE FALSE

(***************************************************************************)
(* getNearestRegion and the station elevations (None: no such key).        *)
(***************************************************************************)
Regions ==
    <<[id |-> "front_range", lat |-> 39750, lon |-> -105200],
      [id |-> "boulder", lat |-> 40015, lon |-> -105270],
      [id |-> "golden", lat |-> 39750, lon |-> -105220],
      [id |-> "denver", lat |-> 39740, lon |-> -104990],
      [id |-> "colorado_springs", lat |-> 38830, lon |-> -104820],
      [id |-> "fort_collins", lat |-> 40580, lon |-> -105080],
      [id |-> "summit_county", lat |-> 39600, lon |-> -106000],
      [id |-> "leadville", lat |-> 39250, lon |-> -106290],
      [id |-> "aspen", lat |-> 39190, lon |-> -106820],
      [id |-> "durango", lat |-> 37280, lon |-> -107880],
      [id |-> "steamboat", lat |-> 40480, lon |-> -106830],
      [id |-> "gunnison", lat |-> 38550, lon |-> -106930],
      [id |-> "telluride", lat |-> 37940, lon |-> -107810]>>

\* The square of dist for the region centre center; None is the NaN a
\* coordinate that is not a number yields.
DistSquared(lat, lon, center) ==
    IF lat = None \/ lon = None THEN None
    ELSE Some((Val(lat) - center.lat) * (Val(lat) - center.lat)
              + (Val(lon) - center.lon) * (Val(lon) - center.lon))

\* NearestFrom with the comparison written <=.
RECURSIVE NearestFromLast(_, _, _, _, _)
NearestFromLast(k, lat, lon, nearest, minDist) ==
    IF k > Len(Regions) THEN nearest
    ELSE LET center == Regions[k]
             dist == DistSquared(lat, lon, center)
         IN  IF dist # None /\ (minDist = None \/ Val(dist) <= Val(minDist))
             THEN NearestFromLast(k + 1, lat, lon, center.id, dist)
             ELSE NearestFromLast(k + 1, lat, lon, nearest, minDist)

\* The loop of getNearestRegion from entry k on; minDist is None for
\* Infinity, else the square of the smallest distance so far (Math.sqrt is
\* monotone, so squares compare as the distances do); a NaN dist compares
\* false.
RECURSIVE NearestFrom(_, _, _, _, _)
NearestFrom(k, lat, lon, nearest, minDist) ==
    IF k > Len(Regions) THEN nearest
    ELSE LET center == Regions[k]
             dist == DistSquared(lat, lon, center)
         IN  IF dist # None /\ (minDist = None \/ Val(dist) < Val(minDist))
             THEN NearestFrom(k + 1, lat, lon, center.id, dist)
             ELSE NearestFrom(k + 1, lat, lon, nearest, minDist)

getNearestRegion(lat, lon) == NearestFrom(1, lat, lon, "front_range", None)

STATION_ELEVATIONS(region) ==
    CASE region = "front_range" -> Some(1800)
      [] region = "boulder" -> Some(1655)
      [] region = "golden" -> Some(1730)
      [] region = "denver" -> Some(1609)
      [] region = "colorado_springs" -> Some(1839)
      [] region = "fort_collins" -> Some(1525)
      [] region = "summit_county" -> Some(2926)
      [] region = "leadville" -> Some(3094)
      [] region = "aspen" -> Some(2438)
      [] region = "durango" -> Some(2003)
      [] region = "steamboat" -> Some(2051)
      [] region = "gunnison" -> Some(2347)
      [] region = "telluride" -> Some(2667)
      [] OTHER -> None

(***************************************************************************)
(* The weather window: a sequence of WeatherDay records                    *)
(* [date, precipitation_mm, temp_max_c, temp_min_c, humidity_pct]; the      *)
(* last two (tenths of a degree, percent) are read nowhere in the engine.  *)
(***************************************************************************)
\* One step of the stable sort by date, most recent first: d goes after
\* every entry whose date is not earlier than its own.
RECURSIVE InsertByDateDesc(_, _, _)
InsertByDateDesc(sorted, d, tzOffset) ==
    IF sorted = <<>> THEN <<d>>
    ELSE IF ParseIsoDate(d.date, tzOffset) - ParseIsoDate(Head(sorted).date, tzOffset) > 0
         THEN <<d>> \o sorted
         ELSE <<Head(sorted)>> \o InsertByDateDesc(Tail(sorted), d, tzOffset)

\* [...weather].sort((a, b) => new Date(b.date) - new Date(a.date))
RECURSIVE SortByDateDesc(_, _)
SortByDateDesc(weather, tzOffset) ==
    IF weather = <<>> THEN <<>>
    ELSE InsertByDateDesc(
             SortByDateDesc(SubSeq(weather, 1, Len(weather) - 1), tzOffset),
             weather[Len(weather)], tzOffset)

\* HoursSinceFirstRain with any precipitation at all counted as rain.
RECURSIVE HoursSinceAnyRain(_, _, _)
HoursSinceAnyRain(sorted, now, tzOffset) ==
    IF sorted = <<>> THEN None
    ELSE LET day == Head(sorted)
         IN  IF day.precipitation_mm > 0
             THEN LET rainDate == SetHours(ParseIsoDate(day.date, tzOffset), 12)
                  IN  Some(Max(0, MathRound(now - rainDate, Hours(1))))
             ELSE HoursSinceAnyRain(Tail(sorted), now, tzOffset)

\* The for loop of calculateHoursSinceRain: the hours since noon of the
\* first day at or above the threshold, None when the loop ends without one.
RECURSIVE HoursSinceFirstRain(_, _, _)
HoursSinceFirstRain(sorted, now, tzOffset) ==
    IF sorted = <<>> THEN None
    ELSE LET day == Head(sorted)
         IN  IF day.precipitation_mm >= PRECIP_THRESHOLD_MM
             THEN LET rainDate == SetHours(ParseIsoDate(day.date, tzOffset), 12)
                  IN  Some(Max(0, MathRound(now - rainDate, Hours(1))))
             ELSE HoursSinceFirstRain(Tail(sorted), now, tzOffset)

\* The caller's array after calculateHoursSinceRain, had it sorted the array
\* itself and not a copy.
WeatherSortedInPlace(weather, tzOffset) == SortByDateDesc(weather, tzOffset)

\* The caller's array after calculateHoursSinceRain: the sort is applied to
\* the copy [...weather], and the array passed in keeps its order.
WeatherAfterSort(weather, tzOffset) == weather

\* calculateHoursSinceRain with a full week of dry hours for a window
\* without significant rain, whatever its length.
calculateHoursSinceRainFullWeek(weather, now, tzOffset) ==
    LET found == HoursSinceFirstRain(SortByDateDesc(weather, tzOffset), now, tzOffset)
    IN  IF IsSome(found) THEN Val(found) ELSE 7 * 24

calculateHoursSinceRain(weather, now, tzOffset) ==
    LET found == HoursSinceFirstRain(SortByDateDesc(weather, tzOffset), now, tzOffset)
    IN  IF IsSome(found) THEN Val(found) ELSE Len(weather) * 24

RECURSIVE SumOf(_, _)
SumOf(s, field) ==
    IF s = <<>> THEN 0 ELSE s[1][field] + SumOf(Tail(s), field)

\* weather.slice(0, days)
Slice0(weather, days) == SubSeq(weather, 1, Min(days, Len(weather)))

\* calculateAvgTemp: a fraction of tenths of a degree.
calculateAvgTemp(weather, days) ==
    LET recent == Slice0(weather, days)
    IN  IF Len(recent) = 0 THEN [num |-> 150, den |-> 1]
        ELSE [num |-> SumOf(recent, "temp_max_c"), den |-> Len(recent)]

\* calculateRecentPrecip, in tenths of a millimetre.
calculateRecentPrecip(weather, days) == SumOf(Slice0(weather, days), "precipitation_mm")

(***************************************************************************)
(* predictTrailCondition.  A trail is a record [soil_drainage_class,       *)
(* dominant_aspect, elevation_min, base_dry_hours, access, centroid_lat,   *)
(* centroid_lon], the first five nullable.                                 *)
(***************************************************************************)
\* trail.base_dry_hours || (trail.soil_drainage_class
\*     ? BASE_DRY_HOURS[trail.soil_drainage_class] : 48); None is undefined.
BaseDryHours(trail) ==
    IF TruthyNum(trail.base_dry_hours) THEN trail.base_dry_hours
    ELSE IF TruthyStr(trail.soil_drainage_class)
         THEN BASE_DRY_HOURS(Val(trail.soil_drainage_class))
         ELSE Some(48)

\* In hundredths.
AspectMod(trail) ==
    IF TruthyStr(trail.dominant_aspect)
    THEN LET m == ASPECT_MODIFIERS(Val(trail.dominant_aspect))
         IN  IF TruthyNum(m) THEN Val(m) ELSE 100
    ELSE 100

\* ElevMod with the threshold written >= 2438.
ElevModFrom2438(trail) ==
    IF TruthyNum(trail.elevation_min) /\ Val(trail.elevation_min) >= 2438
    THEN 12 ELSE 10

\* In tenths.
ElevMod(trail) ==
    IF TruthyNum(trail.elevation_min) /\ Val(trail.elevation_min) > 2438
    THEN 12 ELSE 10

\* STATION_ELEVATIONS[nearestRegion] || 1800
StationElevation(trail) ==
    LET e == STATION_ELEVATIONS(getNearestRegion(trail.centroid_lat, trail.centroid_lon))
    IN  IF TruthyNum(e) THEN Val(e) ELSE 1800

TrailElevation(trail) ==
    IF TruthyNum(trail.elevation_min) THEN Val(trail.elevation_min)
    ELSE StationElevation(trail)

\* AvgTemp without the clamp of the elevation difference at zero.
AvgTempUnclamped(trail, weather) ==
    LET elevDiffM == TrailElevation(trail) - StationElevation(trail)
        stationAvgTemp == calculateAvgTemp(weather, 3)
    IN  [num |-> 1000 * stationAvgTemp.num - elevDiffM * LAPSE_RATE * stationAvgTemp.den,
         den |-> 1000 * stationAvgTemp.den]

\* stationAvgTemp - (elevDiffM / 1000) * LAPSE_RATE, a fraction of tenths of
\* a degree.
AvgTemp(trail, weather) ==
    LET elevDiffM == Max(0, TrailElevation(trail) - StationElevation(trail))
        stationAvgTemp == calculateAvgTemp(weather, 3)
    IN  [num |-> 1000 * stationAvgTemp.num - elevDiffM * LAPSE_RATE * stationAvgTemp.den,
         den |-> 1000 * stationAvgTemp.den]

\* avgTemp > degrees and avgTemp < degrees, for whole degrees.
TempAbove(avgTemp, degrees) == avgTemp.num > 10 * degrees * avgTemp.den
TempBelow(avgTemp, degrees) == avgTemp.num < 10 * degrees * avgTemp.den

\* TempMod with the comparisons written >=.
TempModInclusive(avgTemp) ==
    IF ~TempBelow(avgTemp, 20) THEN 7
    ELSE IF ~TempBelow(avgTemp, 10) THEN 10
    ELSE IF ~TempBelow(avgTemp, 0) THEN 15
    ELSE 30

\* In tenths.
TempMod(avgTemp) ==
    IF TempAbove(avgTemp, 20) THEN 7
    ELSE IF TempAbove(avgTemp, 10) THEN 10
    ELSE IF TempAbove(avgTemp, 0) THEN 15
    ELSE 30

\* Math.round(baseDryHours * aspectMod * elevMod * tempMod); None is the NaN
\* an undefined baseDryHours yields.  The product is exact here; the double
\* product rounds to the same integer for every base of BASE_DRY_HOURS and
\* every base_dry_hours the specifications draw (it differs for some other
\* bases, e.g. 45 * 0.7 is 31.499... in doubles).
EffectiveDryHours(baseDryHours, aspectMod, elevMod, tempMod) ==
    IF IsSome(baseDryHours)
    THEN Some(MathRound(Val(baseDryHours) * aspectMod * elevMod * tempMod, 10000))
    ELSE None

\* IsSnow with the freezing test written <= 0.
IsSnowAtFreezing(avgTemp, trailElevation, month) ==
    \/ ~TempAbove(avgTemp, 0)
    \/ (IsWinter(month) /\ FeetAbove(trailElevation, 11000))
    \/ (IsWinter(month) /\ FeetAbove(trailElevation, 9500) /\ TempBelow(avgTemp, 5))

IsSnow(avgTemp, trailElevation, month) ==
    \/ TempBelow(avgTemp, 0)
    \/ (IsWinter(month) /\ FeetAbove(trailElevation, 11000))
    \/ (IsWinter(month) /\ FeetAbove(trailElevation, 9500) /\ TempBelow(avgTemp, 5))

\* Condition with the two middle labels exchanged.
ConditionMiddleSwapped(isSnow, hoursSinceRain, effectiveDryHours) ==
    IF isSnow THEN "snow"
    ELSE IF IsSome(effectiveDryHours) /\ 2 * hoursSinceRain > 3 * Val(effectiveDryHours)
         THEN "rideable"
    ELSE IF IsSome(effectiveDryHours) /\ hoursSinceRain > Val(effectiveDryHours)
         THEN "likely_muddy"
    ELSE IF IsSome(effectiveDryHours) /\ 2 * hoursSinceRain > Val(effectiveDryHours)
         THEN "likely_rideable"
    ELSE "muddy"

\* The if chain on hoursSinceRain; every comparison with NaN is false.
Condition(isSnow, hoursSinceRain, effectiveDryHours) ==
    IF isSnow THEN "snow"
    ELSE IF IsSome(effectiveDryHours) /\ 2 * hoursSinceRain > 3 * Val(effectiveDryHours)
         THEN "rideable"
    ELSE IF IsSome(effectiveDryHours) /\ hoursSinceRain > Val(effectiveDryHours)
         THEN "likely_rideable"
    ELSE IF IsSome(effectiveDryHours) /\ 2 * hoursSinceRain > Val(effectiveDryHours)
         THEN "likely_muddy"
    ELSE "muddy"

\* Confidence with the elevation test written as truthiness, like the
\* other two.
ConfidenceTruthyElevation(trail) ==
    Min(50 + (IF TruthyStr(trail.soil_drainage_class) THEN 25 ELSE 0)
           + (IF TruthyStr(trail.dominant_aspect) THEN 10 ELSE 0)
           + (IF TruthyNum(trail.elevation_min) THEN 10 ELSE 0),
        100)

Confidence(trail) ==
    Min(50 + (IF TruthyStr(trail.soil_drainage_class) THEN 25 ELSE 0)
           + (IF TruthyStr(trail.dominant_aspect) THEN 10 ELSE 0)
           + (IF IsSome(trail.elevation_min) THEN 10 ELSE 0),
        100)

\* The local variables of a call that gets past the closure check.
Locals(trail, weather, clock, tzOffset) ==
    LET baseDryHours == BaseDryHours(trail)
        aspectMod == AspectMod(trail)
        elevMod == ElevMod(trail)
        avgTemp == AvgTemp(trail, weather)
        tempMod == TempMod(avgTemp)
        month == GetMonth(clock.month)
    IN  [baseDryHours |-> baseDryHours,
         stationAvgTemp |-> calculateAvgTemp(weather, 3),
         aspectMod |-> aspectMod,
         elevMod |-> elevMod,
         stationElevation |-> StationElevation(trail),
         trailElevation |-> TrailElevation(trail),
         avgTemp |-> avgTemp,
         tempMod |-> tempMod,
         effectiveDryHours |-> EffectiveDryHours(baseDryHours, aspectMod, elevMod, tempMod),
         hoursSinceRain |-> calculateHoursSinceRain(weather, clock.rain, tzOffset),
         month |-> month,
         isSnow |-> IsSnow(avgTemp, TrailElevation(trail), month)]

\* Prediction with the confidence of a snow prediction fixed at 90.
PredictionSnowFixed(trail, l) ==
    [condition |-> Condition(l.isSnow, l.hoursSinceRain, l.effectiveDryHours),
     confidence |-> IF l.isSnow THEN 90 ELSE Confidence(trail),
     hours_since_rain |-> l.hoursSinceRain,
     effective_dry_hours |-> l.effectiveDryHours]

\* The value returned after the closure check, from the locals l.
Prediction(trail, l) ==
    [condition |-> Condition(l.isSnow, l.hoursSinceRain, l.effectiveDryHours),
     confidence |-> Confidence(trail),
     hours_since_rain |-> l.hoursSinceRain,
     effective_dry_hours |-> l.effectiveDryHours]

ClosedPrediction ==
    [condition |-> "closed", confidence |-> 100,
     hours_since_rain |-> 0, effective_dry_hours |-> Some(0)]

\* The first statement of predictTrailCondition.
ClosureCheck(trail, clock) ==
    isSeasonallyClosed(trail.access, trail.elevation_min, clock.closure)

\* predictTrailCondition with the closure check made after the snow test.
predictTrailConditionSnowFirst(trail, weather, clock, tzOffset) ==
    LET l == Locals(trail, weather, clock, tzOffset)
    IN  IF ~l.isSnow /\ ClosureCheck(trail, clock)
        THEN [returned |-> ClosedPrediction, locals |-> None, weather |-> weather]
        ELSE [returned |-> Prediction(trail, l), locals |-> Some(l),
              weather |-> WeatherAfterSort(weather, tzOffset)]

\* One call: the value returned (effective_dry_hours is None for NaN), the
\* local variables at the return (None on the early return) and the
\* caller's weather array as the call leaves it.  clock
\* holds the values new Date() returns in isSeasonallyClosed (closure), in
\* calculateHoursSinceRain (rain) and at the month test (month).
predictTrailCondition(trail, weather, clock, tzOffset) ==
    IF ClosureCheck(trail, clock)
    THEN [returned |-> ClosedPrediction, locals |-> None, weather |-> weather]
    ELSE LET l == Locals(trail, weather, clock, tzOffset)
         IN  [returned |-> Prediction(trail, l), locals |-> Some(l),
              weather |-> WeatherAfterSort(weather, tzOffset)]

(***************************************************************************)
(* State.                                                                  *)
(***************************************************************************)
VARIABLES
    tz,       \* the process's offset from UTC, in hours
    clock,    \* the wall-clock readings of the call: [closure, rain, month]
    trail,    \* the trail being classified
    weather,  \* the weather window handed to the classifier
    pc,       \* "ready" before the call, "done" after it
    locals,   \* the call's local variables, None before it and when closed
    pred,     \* the returned prediction, None before the call
    run,      \* the batch run of generatePredictions, None outside one
    api,      \* the report endpoint's module state and requests, None outside it
    etl       \* the COTREX fetch script's files and process, None outside it

vars == <<tz, clock, trail, weather, pc, locals, pred, run, api, etl>>

\* One call of predictTrailCondition.
Predict ==
    /\ pc = "ready"
    /\ \E call \in {predictTrailCondition(trail, weather, clock, tz)} :
           /\ pred' = Some(call.returned)
           /\ locals' = call.locals
           /\ weather' = call.weather
    /\ pc' = "done"
    /\ UNCHANGED <<tz, clock, trail, run, api, etl>>

Next == Predict

\* A second call with the same trail, the same array and the same clock.
PredictAgain ==
    /\ pc = "done"
    /\ \E call \in {predictTrailCondition(trail, weather, clock, tz)} :
           /\ pred' = Some(call.returned)
           /\ locals' = call.locals
           /\ weather' = call.weather
    /\ pc' = "again"
    /\ UNCHANGED <<tz, clock, trail, run, api, etl>>

NextTwice == Predict \/ PredictAgain

\* One call of getNearestRegion for the centroid of trail; pred holds the
\* region id returned.
Locate ==
    /\ pc = "ready"
    /\ pred' = Some(getNearestRegion(trail.centroid_lat, trail.centroid_lon))
    /\ pc' = "located"
    /\ UNCHANGED <<tz, clock, trail, weather, locals, run, api, etl>>

NextLocate == Locate

\* The half-hours the clock may move between two readings of one call, and
\* during one batch run.
MaxDrift == 1

(***************************************************************************)
(* The batch run of generatePredictions, from the loop over the trails on. *)
(* run is [trails, weatherByRegion, predictions, conditionCounts, output,  *)
(* startedAt]; pc is "loop" while the for loop runs and "finished" once    *)
(* the output is created.  trail, weather and pred hold the loop's trail,  *)
(* regionWeather and prediction.  weatherByRegion is a function from the   *)
(* regions that have weather rows to their windows.                        *)
(***************************************************************************)
Labels ==
    {"rideable", "likely_rideable", "likely_muddy", "muddy", "snow", "closed", "unknown"}

\* The initial conditionCounts.
ZeroCounts == [c \in Labels |-> 0]

\* The WeatherDay pushed for the weather_cache row w.
WeatherDayOf(w) ==
    [date |-> w.date,
     precipitation_mm |-> w.precipitation_mm,
     temp_max_c |-> w.temp_max_c,
     temp_min_c |-> w.temp_min_c,
     humidity_pct |-> w.humidity_pct]

\* The grouping of the weather rows by region: a region has an entry when a
\* row names it, and its window holds its rows in the order they came.
GroupByRegion(rows) ==
    [r \in {rows[i].region : i \in 1..Len(rows)} |->
        LET own == SelectSeq(rows, LAMBDA w : w.region = r)
        IN  [i \in 1..Len(own) |-> WeatherDayOf(own[i])]]

\* RegionWeather falling back to the window of whatever region has one.
RegionWeatherAny(weatherByRegion, region) ==
    IF region \in DOMAIN weatherByRegion THEN weatherByRegion[region]
    ELSE IF "front_range" \in DOMAIN weatherByRegion THEN weatherByRegion["front_range"]
    ELSE IF DOMAIN weatherByRegion # {}
         THEN weatherByRegion[CHOOSE r \in DOMAIN weatherByRegion : TRUE]
    ELSE <<>>

\* weatherByRegion[region] || weatherByRegion['front_range'] || []
RegionWeather(weatherByRegion, region) ==
    IF region \in DOMAIN weatherByRegion THEN weatherByRegion[region]
    ELSE IF "front_range" \in DOMAIN weatherByRegion THEN weatherByRegion["front_range"]
    ELSE <<>>

\* The record pushed to predictions for trail t.
PredictionRow(t, prediction, regionWeather) ==
    [id |-> t.id,
     centroid_lat |-> t.centroid_lat,
     centroid_lon |-> t.centroid_lon,
     condition |-> prediction.condition,
     confidence |-> prediction.confidence,
     hours_since_rain |-> prediction.hours_since_rain,
     effective_dry_hours |-> prediction.effective_dry_hours,
     factors |->
        [soil |-> t.soil_drainage_class,
         aspect |-> t.dominant_aspect,
         elevation_min |-> t.elevation_min,
         elevation_max |-> t.elevation_max,
         recent_precip_mm |-> calculateRecentPrecip(regionWeather, 7),
         base_dry_hours |-> IF TruthyNum(t.base_dry_hours)
                            THEN Val(t.base_dry_hours) ELSE 48]]

\* conditionCounts[prediction.condition]++, skipping closed predictions.
CountOpenOnly(conditionCounts, condition) ==
    IF condition = "closed" THEN conditionCounts
    ELSE [conditionCounts EXCEPT ![condition] = @ + 1]

\* conditionCounts[prediction.condition]++
CountCondition(conditionCounts, condition) ==
    [conditionCounts EXCEPT ![condition] = @ + 1]

\* The readings new Date() can return during one call made at or after
\* time now, the wall clock not passing limit.
ClocksAfter(now, limit) ==
    {c \in [closure : now..limit, rain : now..limit, month : now..limit] :
        c.closure <= c.rain /\ c.rain <= c.month}

\* One iteration of the loop over the trails.
Iterate ==
    /\ pc = "loop"
    /\ Len(run.predictions) < Len(run.trails)
    /\ LET t == run.trails[Len(run.predictions) + 1]
           region == getNearestRegion(t.centroid_lat, t.centroid_lon)
           regionWeather == RegionWeather(run.weatherByRegion, region)
       IN  \E c \in ClocksAfter(clock.month, run.startedAt + MaxDrift) :
               \E call \in {predictTrailCondition(t, regionWeather, c, tz)} :
                   /\ clock' = c
                   /\ trail' = t
                   /\ weather' = call.weather
                   /\ pred' = Some(call.returned)
                   /\ locals' = call.locals
                   /\ run' = [run EXCEPT
                                 !.predictions =
                                     Append(@, PredictionRow(t, call.returned, regionWeather)),
                                 !.conditionCounts =
                                     CountCondition(@, call.returned.condition)]
    /\ UNCHANGED <<tz, pc, api, etl>>

\* The output object, created when the loop has ended.
CreateOutput ==
    /\ pc = "loop"
    /\ Len(run.predictions) = Len(run.trails)
    /\ \E generatedAt \in clock.month..(run.startedAt + MaxDrift) :
           run' = [run EXCEPT !.output =
                      Some([generated_at |-> generatedAt,
                            region |-> "Colorado",
                            total_trails |-> Len(run.predictions),
                            summary |-> run.conditionCounts,
                            trails |-> run.predictions])]
    /\ pc' = "finished"
    /\ UNCHANGED <<tz, clock, trail, weather, locals, pred, api, etl>>

NextBatch == Iterate \/ CreateOutput

(***************************************************************************)
(* Inputs.  The engine is a function of the trail, the window, the clock   *)
(* and the time zone; an initial state draws them from the sets below.     *)
(***************************************************************************)
\* Access texts.
\* ""
TxtEmpty == <<>>
\* "  "
TxtBlank == <<" ", " ">>
\* "no"
TxtNo == <<"n", "o">>
\* " No "
TxtNoPadded == <<" ", "N", "o", " ">>
\* "NO"
TxtNoUpper == <<"N", "O">>
\* "authorized/permitted user only"
TxtAuth ==
    <<"a", "u", "t", "h", "o", "r", "i", "z", "e", "d", "/", "p",
      "e", "r", "m", "i", "t", "t", "e", "d", " ", "u", "s", "e",
      "r", " ", "o", "n", "l", "y">>
\* "Authorized/Permitted User Only"
TxtAuthMixed ==
    <<"A", "u", "t", "h", "o", "r", "i", "z", "e", "d", "/", "P",
      "e", "r", "m", "i", "t", "t", "e", "d", " ", "U", "s", "e",
      "r", " ", "O", "n", "l", "y">>
\* "seasonally"
TxtSeasonally == <<"s", "e", "a", "s", "o", "n", "a", "l", "l", "y">>
\* " Seasonally"
TxtSeasonallyPadded == <<" ", "S", "e", "a", "s", "o", "n", "a", "l", "l", "y">>
\* "5/1-11/30"
TxtMayNov == <<"5", "/", "1", "-", "1", "1", "/", "3", "0">>
\* "05/01-09/30"
TxtMaySepZero == <<"0", "5", "/", "0", "1", "-", "0", "9", "/", "3", "0">>
\* "6/16-12/01"
TxtJunDec == <<"6", "/", "1", "6", "-", "1", "2", "/", "0", "1">>
\* "open 5/1-11/30"
TxtOpenMayNov == <<"o", "p", "e", "n", " ", "5", "/", "1", "-", "1", "1", "/", "3", "0">>
\* "11/1-3/31"
TxtNovMar == <<"1", "1", "/", "1", "-", "3", "/", "3", "1">>
\* "yes"
TxtYes == <<"y", "e", "s">>
\* "no bikes"
TxtNoBikes == <<"n", "o", " ", "b", "i", "k", "e", "s">>
\* "closed seasonally"
TxtClosedSeasonally ==
    <<"c", "l", "o", "s", "e", "d", " ", "s", "e", "a", "s", "o",
      "n", "a", "l", "l", "y">>
\* "5/1 to 11/30"
TxtMayToNov == <<"5", "/", "1", " ", "t", "o", " ", "1", "1", "/", "3", "0">>

\* A time of year 0: month 1..12, day of the month, half-hours after midnight.
At(month, day, halfHours) == NewDate(0, month - 1, day) + halfHours

\* A clock that does not move during the call, and one that moves by a and
\* then by b half-hours between the three readings.
Steady(t) == [closure |-> t, rain |-> t, month |-> t]
Moving(t, a, b) == [closure |-> t, rain |-> t + a, month |-> t + a + b]

\* Centroids: 0.01 degrees east of the front_range centre, and next to the
\* leadville centre.
PosFrontRange == <<39750, -105190>>
PosLeadville == <<39250, -106300>>

TrailsOf(soils, aspects, elevations, bases, accesses, positions) ==
    {[soil_drainage_class |-> s, dominant_aspect |-> a, elevation_min |-> e,
      base_dry_hours |-> b, access |-> x,
      centroid_lat |-> Some(p[1]), centroid_lon |-> Some(p[2])] :
        s \in soils, a \in aspects, e \in elevations, b \in bases,
        x \in accesses, p \in positions}

\* A window given by its days' ages: shape is a sequence of <<age in days,
\* precipitation_mm>>, every day with the same temp_max_c.
WindowOf(shape, temp, today) ==
    [i \in 1..Len(shape) |->
        [date |-> today - shape[i][1],
         precipitation_mm |-> shape[i][2],
         temp_max_c |-> temp,
         temp_min_c |-> temp - 100,
         humidity_pct |-> 40]]

WindowsOf(shapes, temps, today) ==
    {WindowOf(sh, t, today) : sh \in shapes, t \in temps}

InitFrom(tzs, clocks, trails, shapes, temps) ==
    /\ tz \in tzs
    /\ clock \in clocks
    /\ trail \in trails
    /\ weather \in WindowsOf(shapes, temps, DayOf(clock.closure))
    /\ pc = "ready"
    /\ locals = None
    /\ pred = None
    /\ run = None
    /\ api = None
    /\ etl = None

\* Rain at the threshold today; below it today and heavy yesterday; three
\* days ago; none in a full week; no weather at all.
ShapeRainToday == << <<0, 25>> >>
ShapeRainYesterday == << <<0, 24>>, <<1, 100>>, <<2, 0>> >>
ShapeRainThreeDaysAgo == << <<0, 0>>, <<1, 0>>, <<2, 0>>, <<3, 60>> >>
ShapeDryWeek == << <<0, 0>>, <<1, 0>>, <<2, 24>>, <<3, 0>>, <<4, 0>>, <<5, 0>>, <<6, 0>> >>
ShapeEmpty == << >>

SpecClocks ==
    {Steady(At(3, 15, Hours(18))), Steady(At(7, 4, Hours(18))),
     Steady(At(11, 30, Hours(10))), Moving(At(10, 31, Hours(23) + 1), 0, 1)}

SpecTrails ==
    TrailsOf({None, Some("Well drained"), Some("Somewhat excessively drained")},
             {None, Some("S")},
             {None, Some(0), Some(1700), Some(2895), Some(2896), Some(3353)},
             {None, Some(0), Some(10)},
             {None, Some(TxtNo), Some(TxtMayNov), Some(TxtSeasonally)},
             {PosFrontRange, PosLeadville})

SpecShapes == {ShapeRainToday, ShapeRainYesterday, ShapeDryWeek, ShapeEmpty}

SpecTemps == {-50, 0, 30, 50, 220}

Init == InitFrom({0}, SpecClocks, SpecTrails, SpecShapes, SpecTemps)

Spec == Init /\ [][Next]_vars

\* The dry-time inputs: every aspect, the elevations around the 2438 m
\* threshold, station temperatures around every step of the temperature
\* modifier, in July and in January.
DryClocks == {Steady(At(7, 4, 0)), Steady(At(1, 15, Hours(18)))}

DryTrails ==
    TrailsOf({None, Some("Well drained"), Some("Excessively drained"),
              Some("Somewhat excessively drained")},
             {None, Some("S"), Some("SE"), Some("SW"), Some("E"), Some("W"),
              Some("NE"), Some("NW"), Some("N"), Some("FLAT")},
             {None, Some(0), Some(1700), Some(2438), Some(2439), Some(3500)},
             {None, Some(10), Some(5)},
             {None},
             {PosFrontRange})

DryShapes == {ShapeRainThreeDaysAgo, ShapeRainToday}

DryTemps == {-50, 0, 50, 100, 200, 220}

InitDry == InitFrom({0}, DryClocks, DryTrails, DryShapes, DryTemps)

SpecDry == InitDry /\ [][Next]_vars

\* The closure inputs: every access text, elevations around 9500 ft, and
\* instants around the ends of the date ranges and of the winter months.
ClosedInstants ==
    {At(1, 15, Hours(18)), At(2, 1, Hours(12)), At(3, 15, Hours(18)), At(4, 30, Hours(23) + 1),
     At(5, 1, 0), At(5, 1, Hours(12)), At(6, 16, 0), At(7, 4, Hours(18)),
     At(9, 30, Hours(12)), At(10, 31, Hours(23) + 1), At(11, 30, 0),
     At(11, 30, Hours(10)), At(12, 1, 0), At(12, 1, Hours(12)), At(12, 15, Hours(18))}

ClosedClocks ==
    {Steady(t) : t \in ClosedInstants}
    \cup {Moving(t, a, b) : t \in {At(4, 30, Hours(23) + 1), At(10, 31, Hours(23) + 1)},
                            a \in 0..MaxDrift, b \in 0..MaxDrift}

AccessTexts ==
    {TxtEmpty, TxtBlank, TxtNo, TxtNoPadded, TxtNoUpper, TxtAuth, TxtAuthMixed,
     TxtSeasonally, TxtSeasonallyPadded, TxtMayNov, TxtMaySepZero, TxtJunDec,
     TxtOpenMayNov, TxtNovMar, TxtYes, TxtNoBikes, TxtClosedSeasonally, TxtMayToNov}

ClosedTrails ==
    TrailsOf({None}, {None},
             {None, Some(0), Some(2895), Some(2896), Some(3500)},
             {None},
             {None} \cup {Some(x) : x \in AccessTexts},
             {PosLeadville})

InitClosed == InitFrom({0}, ClosedClocks, ClosedTrails, {ShapeRainToday, ShapeEmpty}, {150})

SpecClosed == InitClosed /\ [][Next]_vars

\* The rain inputs: every window of at most MaxWindow days with distinct
\* dates, in any order, from tomorrow back to two days ago, and a dry week;
\* clocks around noon; a process in UTC and one in America/Denver.
MaxWindow == 2

RainDays == {<<age, mm>> : age \in -1..2, mm \in {0, 24, 25, 100}}

RainShapes ==
    {ShapeDryWeek} \cup
    {sh \in UNION {[1..n -> RainDays] : n \in 0..MaxWindow} :
        \A i, j \in 1..Len(sh) : i # j => sh[i][1] # sh[j][1]}

RainClocks ==
    {Steady(At(7, 4, 0)), Steady(At(7, 4, Hours(11) + 1)), Steady(At(7, 4, Hours(12) + 1)),
     Steady(At(7, 4, Hours(18))), Steady(At(7, 4, Hours(23) + 1))}
    \cup {Moving(At(7, 4, Hours(13)), a, b) : a \in 0..MaxDrift, b \in 0..MaxDrift}

RainTrails ==
    TrailsOf({Some("Well drained")}, {None}, {Some(1700)}, {None}, {None}, {PosFrontRange})

InitRain == InitFrom({0, -7}, RainClocks, RainTrails, RainShapes, {150})

SpecRain == InitRain /\ [][Next]_vars

\* The temperature inputs: every window of at most MaxDays days with
\* distinct dates, today's and the days before, in any order; temp_max_c
\* falls, rises or stays level from day to day; 6 mm of rain on the day of
\* age wet, none when no day has that age.
MaxDays == 4

AvgProfiles ==
    {[base |-> 300, step |-> -100, wet |-> 1], [base |-> -50, step |-> 100, wet |-> 2],
     [base |-> 150, step |-> 0, wet |-> -1]}

AvgOrders ==
    {o \in UNION {[1..n -> 0..(MaxDays - 1)] : n \in 0..MaxDays} :
        \A i, j \in 1..Len(o) : i # j => o[i] # o[j]}

AvgWindow(order, profile, today) ==
    [i \in 1..Len(order) |->
        [date |-> today - order[i],
         precipitation_mm |-> IF order[i] = profile.wet THEN 60 ELSE 0,
         temp_max_c |-> profile.base + profile.step * order[i],
         temp_min_c |-> profile.base + profile.step * order[i] - 100,
         humidity_pct |-> 40]]

AvgClocks == {Steady(At(7, 4, Hours(18))), Steady(At(1, 15, Hours(18)))}

AvgTrails ==
    TrailsOf({Some("Well drained")}, {None}, {None, Some(1700)}, {None}, {None},
             {PosFrontRange})

InitAvg ==
    /\ tz = 0
    /\ clock \in AvgClocks
    /\ trail \in AvgTrails
    /\ weather \in {AvgWindow(o, p, DayOf(clock.closure)) : o \in AvgOrders, p \in AvgProfiles}
    /\ pc = "ready"
    /\ locals = None
    /\ pred = None
    /\ run = None
    /\ api = None
    /\ etl = None

SpecAvg == InitAvg /\ [][Next]_vars

\* Two calls in a row on the temperature inputs.
SpecTwice == InitAvg /\ [][NextTwice]_vars

\* The batch inputs: every list of at most MaxTrails trails, each an open
\* trail near the front_range station (with and without a precomputed
\* base_dry_hours), a trail closed to bikes or a high
\* "seasonally" trail near Leadville; weather for both regions, for
\* front_range alone, for leadville alone or for none; a run that starts on a July evening or in
\* the last half-hour of October.
MaxTrails == 2

BatchKinds ==
    TrailsOf({Some("Well drained")}, {Some("S")}, {Some(1700)}, {None, Some(10)}, {None},
             {PosFrontRange})
    \cup TrailsOf({None}, {None}, {None}, {None}, {Some(TxtNo)}, {PosLeadville})
    \cup TrailsOf({Some("Poorly drained")}, {None}, {Some(3353)}, {Some(0)},
                  {Some(TxtSeasonally)}, {PosLeadville})

\* The trail row t with its id and elevation_max.
TrailRow(t, id) ==
    [id |-> id,
     soil_drainage_class |-> t.soil_drainage_class,
     dominant_aspect |-> t.dominant_aspect,
     elevation_min |-> t.elevation_min,
     elevation_max |-> IF t.elevation_min = None THEN None
                       ELSE Some(Val(t.elevation_min) + 100),
     base_dry_hours |-> t.base_dry_hours,
     access |-> t.access,
     centroid_lat |-> t.centroid_lat,
     centroid_lon |-> t.centroid_lon]

BatchTrailLists ==
    UNION {{[k \in 1..n |-> TrailRow(f[k], k)] : f \in [1..n -> BatchKinds]} :
              n \in 0..MaxTrails}

\* The weather_cache rows of region for a window.
RowsOf(region, window) ==
    [i \in 1..Len(window) |->
        [region |-> region,
         date |-> window[i].date,
         precipitation_mm |-> window[i].precipitation_mm,
         temp_max_c |-> window[i].temp_max_c,
         temp_min_c |-> window[i].temp_min_c,
         humidity_pct |-> window[i].humidity_pct]]

\* The rows the query returns, most recent first: for front_range and
\* leadville, for front_range alone, for leadville alone, and none.
BatchRows(today) ==
    LET front == RowsOf("front_range", WindowOf(ShapeRainToday, 220, today))
        lead == RowsOf("leadville", WindowOf(ShapeRainYesterday, 100, today))
    IN  {SortByDateDesc(front \o lead, 0), front, lead, <<>>}

BatchWeather(today) == {GroupByRegion(rows) : rows \in BatchRows(today)}

BatchInstants == {At(7, 4, Hours(18)), At(10, 31, Hours(23) + 1)}

InitBatch ==
    /\ tz = 0
    /\ \E t \in BatchInstants :
           /\ clock = Steady(t)
           /\ \E ts \in BatchTrailLists, w \in BatchWeather(DayOf(t)) :
                  run = [trails |-> ts,
                         weatherByRegion |-> w,
                         predictions |-> <<>>,
                         conditionCounts |-> ZeroCounts,
                         output |-> None,
                         startedAt |-> t]
    /\ trail = None
    /\ weather = <<>>
    /\ pc = "loop"
    /\ locals = None
    /\ pred = None
    /\ api = None
    /\ etl = None

SpecBatch == InitBatch /\ [][NextBatch]_vars

\* The region inputs: centroids on a grid over Colorado that holds region
\* centres, the point midway between the front_range and golden centres,
\* the point midway between the durango and telluride centres, and
\* coordinates that are not numbers.
RegionLats ==
    {None} \cup {Some(x) : x \in {37000, 37610, 38000, 38550, 39000, 39250,
                                  39750, 40015, 40500, 41000}}

RegionLons ==
    {None} \cup {Some(x) : x \in {-108000, -107845, -107000, -106290, -106000,
                                  -105210, -105200, -105000, -104000}}

InitRegion ==
    /\ tz = 0
    /\ clock = Steady(At(7, 4, Hours(18)))
    /\ trail \in {[soil_drainage_class |-> None, dominant_aspect |-> None,
                   elevation_min |-> None, base_dry_hours |-> None, access |-> None,
                   centroid_lat |-> lat, centroid_lon |-> lon] :
                     lat \in RegionLats, lon \in RegionLons}
    /\ weather = <<>>
    /\ pc = "ready"
    /\ locals = None
    /\ pred = None
    /\ run = None
    /\ api = None
    /\ etl = None

SpecRegion == InitRegion /\ [][NextLocate]_vars

(***************************************************************************)
(* The report endpoint (src/app/api/report/route.ts).  An IP address is a  *)
(* tuple of one-character strings, a trail id a number below ten, Date.now *)
(* a count of half-hours.  The handler runs to completion between its two  *)
(* awaits (request.json() and the insert), where other requests run.       *)
(***************************************************************************)
RATE_LIMIT_WINDOW_MS == Hours(1)

RATE_LIMIT_MAX == 5

\* `${ip}:${trailId}`
getRateLimitKey(ip, trailId) == ip \o <<":">> \o <<DigitChars[trailId + 1]>>

\* !entry || now - entry.timestamp > RATE_LIMIT_WINDOW_MS
NoLiveEntry(rateLimitMap, key, now) ==
    \/ key \notin DOMAIN rateLimitMap
    \/ now - rateLimitMap[key].timestamp > RATE_LIMIT_WINDOW_MS

isRateLimited(rateLimitMap, now, ip, trailId) ==
    LET key == getRateLimitKey(ip, trailId)
    IN  IF NoLiveEntry(rateLimitMap, key, now) THEN FALSE
        ELSE rateLimitMap[key].count >= RATE_LIMIT_MAX

\* rateLimitMap.set(key, value)
MapSet(map, key, value) ==
    [k \in DOMAIN map \cup {key} |-> IF k = key THEN value ELSE map[k]]

\* The map after incrementRateLimit(ip, trailId).
incrementRateLimit(rateLimitMap, now, ip, trailId) ==
    LET key == getRateLimitKey(ip, trailId)
    IN  IF NoLiveEntry(rateLimitMap, key, now)
        THEN MapSet(rateLimitMap, key, [count |-> 1, timestamp |-> now])
        ELSE [rateLimitMap EXCEPT ![key].count = @ + 1]

validConditions == {"dry", "tacky", "muddy", "snow"}

\* The client address: the first entry of x-forwarded-for, else x-real-ip,
\* else 'unknown'.  A header is None when absent; x-forwarded-for is the
\* list of its comma-separated entries.
ClientIp(headers) ==
    IF IsSome(headers.forwarded) /\ Head(Val(headers.forwarded)) # <<>>
    THEN Head(Val(headers.forwarded))
    ELSE IF IsSome(headers.real) /\ Val(headers.real) # <<>>
         THEN Val(headers.real)
         ELSE <<"u", "n", "k", "n", "o", "w", "n">>

\* The handler takes up request i: it reads the headers and awaits the body.
Receive(i) ==
    /\ api # None
    /\ api.requests[i].pc = "sent"
    /\ api' = [api EXCEPT !.requests[i].pc = "json",
                          !.requests[i].ip = Some(ClientIp(api.requests[i].headers))]
    /\ UNCHANGED <<tz, clock, trail, weather, pc, locals, pred, run, etl>>

\* The body has arrived: validation, the rate-limit check, the environment
\* check and the start of the insert, up to the await of its result.  A
\* body that is not JSON (None) throws into the catch clause.
Validate(i) ==
    /\ api # None
    /\ api.requests[i].pc = "json"
    /\ LET req == api.requests[i]
           ip == Val(req.ip)
           answer(status) ==
               [api EXCEPT !.requests[i].pc = "answered",
                           !.requests[i].status = Some(status)]
       IN  api' =
               IF req.body = None THEN answer(500)
               ELSE LET body == Val(req.body)
                    IN  IF ~TruthyNum(body.trail_id) \/ ~TruthyStr(body.condition)
                        THEN answer(400)
                        ELSE IF Val(body.condition) \notin validConditions
                        THEN answer(400)
                        ELSE IF isRateLimited(api.rateLimitMap, api.now, ip,
                                              Val(body.trail_id))
                        THEN answer(429)
                        ELSE IF ~api.configured
                        THEN answer(500)
                        ELSE [api EXCEPT
                                 !.requests[i].pc = "insert",
                                 !.requests[i].row =
                                     Some([trail_id |-> Val(body.trail_id),
                                           condition |-> Val(body.condition),
                                           ip |-> ip,
                                           reported_at |-> api.now])]
    /\ UNCHANGED <<tz, clock, trail, weather, pc, locals, pred, run, etl>>

\* The insert has returned, with an error or with the row stored; on
\* success the rate limit is updated and the request answered with 200.
\* accepted logs the key and the time of every success answer.
Inserted(i) ==
    /\ api # None
    /\ api.requests[i].pc = "insert"
    /\ \E error \in BOOLEAN :
           LET req == api.requests[i]
               row == Val(req.row)
           IN  api' =
                   IF error
                   THEN [api EXCEPT !.requests[i].pc = "answered",
                                    !.requests[i].status = Some(500)]
                   ELSE [api EXCEPT
                            !.condition_reports = Append(@, row),
                            !.rateLimitMap =
                                incrementRateLimit(@, api.now, row.ip, row.trail_id),
                            !.accepted =
                                Append(@, [key |-> getRateLimitKey(row.ip, row.trail_id),
                                           at |-> api.now]),
                            !.requests[i].pc = "answered",
                            !.requests[i].status = Some(200)]
    /\ UNCHANGED <<tz, clock, trail, weather, pc, locals, pred, run, etl>>

\* Half an hour passes.
MaxElapsed == 3

Tick ==
    /\ api # None
    /\ api.now < MaxElapsed
    /\ api' = [api EXCEPT !.now = @ + 1]
    /\ UNCHANGED <<tz, clock, trail, weather, pc, locals, pred, run, etl>>

MaxRequests == 3

NextReport ==
    \/ \E i \in 1..MaxRequests : Receive(i)
    \/ \E i \in 1..MaxRequests : Validate(i)
    \/ \E i \in 1..MaxRequests : Inserted(i)
    \/ Tick

\* Requests: all but the last report trail 1 as dry from address a; the last
\* one is any of the shapes below.
AddressA == <<"a">>

HeadersA == [forwarded |-> Some(<<AddressA, <<"p">>>>), real |-> None]

ReportBody(trailId, condition) ==
    Some([trail_id |-> trailId, condition |-> condition])

RequestShapes ==
    {[headers |-> HeadersA, body |-> ReportBody(Some(1), Some("dry"))],
     [headers |-> HeadersA, body |-> ReportBody(Some(2), Some("muddy"))],
     [headers |-> [forwarded |-> None, real |-> Some(AddressA)],
      body |-> ReportBody(Some(1), Some("snow"))],
     [headers |-> [forwarded |-> None, real |-> None],
      body |-> ReportBody(Some(1), Some("tacky"))],
     [headers |-> HeadersA, body |-> ReportBody(None, Some("dry"))],
     [headers |-> HeadersA, body |-> ReportBody(Some(0), Some("dry"))],
     [headers |-> HeadersA, body |-> ReportBody(Some(1), None)],
     [headers |-> HeadersA, body |-> ReportBody(Some(1), Some("dusty"))],
     [headers |-> HeadersA, body |-> None]}

RequestOf(shape) ==
    [pc |-> "sent", headers |-> shape.headers, body |-> shape.body,
     ip |-> None, row |-> None, status |-> None]

\* The module after k reports of trail 1 from address a were accepted one
\* after the other at time 0.
ServedBefore(k) ==
    [rateLimitMap |->
         IF k = 0 THEN <<>>
         ELSE MapSet(<<>>, getRateLimitKey(AddressA, 1),
                     [count |-> k, timestamp |-> 0]),
     condition_reports |->
         [j \in 1..k |-> [trail_id |-> 1, condition |-> "dry", ip |-> AddressA,
                          reported_at |-> 0]],
     accepted |-> [j \in 1..k |-> [key |-> getRateLimitKey(AddressA, 1), at |-> 0]]]

InitReport ==
    /\ tz = 0
    /\ clock = Steady(At(7, 4, Hours(18)))
    /\ trail = None
    /\ weather = <<>>
    /\ pc = "serving"
    /\ locals = None
    /\ pred = None
    /\ run = None
    /\ etl = None
    /\ \E k \in {0, RATE_LIMIT_MAX - 1, RATE_LIMIT_MAX}, last \in RequestShapes,
          configured \in BOOLEAN :
           LET before == ServedBefore(k)
           IN  api = [rateLimitMap |-> before.rateLimitMap,
                      condition_reports |-> before.condition_reports,
                      accepted |-> before.accepted,
                      now |-> 0,
                      configured |-> configured,
                      requests |->
                          [i \in 1..MaxRequests |->
                              IF i < MaxRequests
                              THEN RequestOf([headers |-> HeadersA,
                                              body |-> ReportBody(Some(1), Some("dry"))])
                              ELSE RequestOf(last)]]

SpecReport == InitReport /\ [][NextReport]_vars

(***************************************************************************)
(* The COTREX fetch script (scripts/etl/fetch-cotrex.ts).  The server      *)
(* holds the features 0 .. total - 1; a list of raw features is the        *)
(* sequence of the ranges <<from, to>> (to exclusive) that were pushed to  *)
(* it, so that a missing or a repeated feature shows.  A file is None      *)
(* while it does not exist.  The process proc is None while the script is  *)
(* not running.                                                            *)
(***************************************************************************)
BATCH_SIZE == 2000

\* The features fetchBatch(offset) returns, and the server's flag.
fetchBatch(total, offset) ==
    LET to == Min(offset + BATCH_SIZE, total)
    IN  [features |-> IF offset < total THEN <<offset, to>> ELSE <<>>,
         length |-> IF offset < total THEN to - offset ELSE 0,
         exceededTransferLimit |-> to < total]

\* allRawFeatures.push(...features)
PushFeatures(allRawFeatures, features) ==
    IF features = <<>> THEN allRawFeatures ELSE Append(allRawFeatures, features)

\* allRawFeatures.length
RECURSIVE RawLength(_)
RawLength(allRawFeatures) ==
    IF allRawFeatures = <<>> THEN 0
    ELSE Head(allRawFeatures)[2] - Head(allRawFeatures)[1]
         + RawLength(Tail(allRawFeatures))

loadProgress(progressFile) ==
    IF IsSome(progressFile) THEN Val(progressFile)
    ELSE [offset |-> 0, totalFetched |-> 0]

MaxRuns == 3

\* The script starts: the progress is loaded and, when resuming, the
\* segments saved before.
StartFetch ==
    /\ etl # None
    /\ etl.proc = None
    /\ etl.runs < MaxRuns
    /\ LET progress == loadProgress(etl.progressFile)
       IN  etl' = [etl EXCEPT
                      !.runs = @ + 1,
                      !.proc =
                          Some([pc |-> "fetch",
                                allRawFeatures |->
                                    IF progress.offset > 0 /\ IsSome(etl.segmentsFile)
                                    THEN Val(etl.segmentsFile)
                                    ELSE <<>>,
                                progress |-> progress,
                                offset |-> progress.offset,
                                batchCount |-> 0,
                                hasMore |-> TRUE])]
    /\ UNCHANGED <<tz, clock, trail, weather, pc, locals, pred, run, api>>

\* One batch arrives: an empty one leaves the loop; any other is pushed and
\* the progress file written.
FetchBatchOk ==
    /\ etl # None
    /\ IsSome(etl.proc)
    /\ Val(etl.proc).pc = "fetch"
    /\ LET p == Val(etl.proc)
           batch == fetchBatch(etl.total, p.offset)
           all == PushFeatures(p.allRawFeatures, batch.features)
           progress == [offset |-> p.offset + batch.length,
                        totalFetched |-> RawLength(all)]
       IN  etl' =
               IF batch.length = 0
               THEN [etl EXCEPT !.proc = Some([p EXCEPT !.pc = "merge"])]
               ELSE [etl EXCEPT
                        !.progressFile = Some(progress),
                        !.proc =
                            Some([p EXCEPT
                                     !.pc = "saved",
                                     !.allRawFeatures = all,
                                     !.offset = progress.offset,
                                     !.progress = progress,
                                     !.hasMore = batch.exceededTransferLimit
                                                 \/ batch.length = BATCH_SIZE])]
    /\ UNCHANGED <<tz, clock, trail, weather, pc, locals, pred, run, api>>

\* After the progress file: every fifth batch the segments file is written;
\* then the loop goes on or ends.
SaveIntermediate ==
    /\ etl # None
    /\ IsSome(etl.proc)
    /\ Val(etl.proc).pc = "saved"
    /\ LET p == Val(etl.proc)
           batchCount == p.batchCount + 1
       IN  etl' = [etl EXCEPT
                      !.segmentsFile =
                          IF batchCount % 5 = 0 THEN Some(p.allRawFeatures) ELSE @,
                      !.proc = Some([p EXCEPT
                                        !.batchCount = batchCount,
                                        !.pc = IF p.hasMore THEN "fetch" ELSE "merge"])]
    /\ UNCHANGED <<tz, clock, trail, weather, pc, locals, pred, run, api>>

\* fetchBatch throws: the catch clause writes the segments file ...
FetchBatchThrows ==
    /\ etl # None
    /\ IsSome(etl.proc)
    /\ Val(etl.proc).pc = "fetch"
    /\ etl' = [etl EXCEPT
                  !.segmentsFile = Some(Val(etl.proc).allRawFeatures),
                  !.proc = Some([Val(etl.proc) EXCEPT !.pc = "caught"])]
    /\ UNCHANGED <<tz, clock, trail, weather, pc, locals, pred, run, api>>

\* ... then the progress file, and rethrows: the process exits.
SaveCaught ==
    /\ etl # None
    /\ IsSome(etl.proc)
    /\ Val(etl.proc).pc = "caught"
    /\ etl' = [etl EXCEPT
                  !.progressFile = Some(Val(etl.proc).progress),
                  !.proc = None]
    /\ UNCHANGED <<tz, clock, trail, weather, pc, locals, pred, run, api>>

\* The loop has ended: the raw features are merged and the output written.
\* outputFile records the raw features the merged trails were built from.
MergeAndSave ==
    /\ etl # None
    /\ IsSome(etl.proc)
    /\ Val(etl.proc).pc = "merge"
    /\ etl' = [etl EXCEPT
                  !.outputFile = Some(Val(etl.proc).allRawFeatures),
                  !.proc = Some([Val(etl.proc) EXCEPT !.pc = "unlinkProgress"])]
    /\ UNCHANGED <<tz, clock, trail, weather, pc, locals, pred, run, api>>

UnlinkProgress ==
    /\ etl # None
    /\ IsSome(etl.proc)
    /\ Val(etl.proc).pc = "unlinkProgress"
    /\ etl' = [etl EXCEPT
                  !.progressFile = None,
                  !.proc = Some([Val(etl.proc) EXCEPT !.pc = "unlinkSegments"])]
    /\ UNCHANGED <<tz, clock, trail, weather, pc, locals, pred, run, api>>

\* The last file operation; the run is complete.
UnlinkSegments ==
    /\ etl # None
    /\ IsSome(etl.proc)
    /\ Val(etl.proc).pc = "unlinkSegments"
    /\ etl' = [etl EXCEPT
                  !.segmentsFile = None,
                  !.completed = @ + 1,
                  !.proc = None]
    /\ UNCHANGED <<tz, clock, trail, weather, pc, locals, pred, run, api>>

\* The process is killed between two file operations.
Kill ==
    /\ etl # None
    /\ IsSome(etl.proc)
    /\ etl' = [etl EXCEPT !.proc = None]
    /\ UNCHANGED <<tz, clock, trail, weather, pc, locals, pred, run, api>>

NextFetch ==
    \/ StartFetch
    \/ FetchBatchOk
    \/ SaveIntermediate
    \/ FetchBatchThrows
    \/ SaveCaught
    \/ MergeAndSave
    \/ UnlinkProgress
    \/ UnlinkSegments
    \/ Kill

\* The sizes of the server's data set: up to MaxBatches full batches, with
\* or without a partial one after them.
MaxBatches == 5

Totals == {b * BATCH_SIZE + r : b \in 0..MaxBatches, r \in {0, 500}}

InitFetch ==
    /\ tz = 0
    /\ clock = Steady(At(7, 4, Hours(18)))
    /\ trail = None
    /\ weather = <<>>
    /\ pc = "fetching"
    /\ locals = None
    /\ pred = None
    /\ run = None
    /\ api = None
    /\ \E total \in Totals :
           etl = [total |-> total,
                  progressFile |-> None,
                  segmentsFile |-> None,
                  outputFile |-> None,
                  proc |-> None,
                  runs |-> 0,
                  completed |-> 0]

SpecFetch == InitFetch /\ [][NextFetch]_vars

(***************************************************************************)
(* Claims.                                                                 *)
(***************************************************************************)
Done == pc = "done"
Returned == Val(pred)

\* 2 * h > k * e and 2 * h <= k * e for a number e; both false for NaN.
ClaimAbove(h, k, e) == IsSome(e) /\ 2 * h > k * Val(e)
ClaimAtMost(h, k, e) == IsSome(e) /\ 2 * h <= k * Val(e)

\* C1: a trail that is neither closed nor snow gets the label fixed by strict
\* comparisons of h = hours_since_rain with e = effective_dry_hours:
\* rideable iff h > 1.5e, likely_rideable iff e < h <= 1.5e, likely_muddy iff
\* 0.5e < h <= e, muddy iff h <= 0.5e.
C1_LabelByStrictComparisons ==
    (Done /\ Returned.condition \notin {"closed", "snow"}) =>
        LET h == Returned.hours_since_rain
            e == Returned.effective_dry_hours
            c == Returned.condition
        IN  /\ c \in {"rideable", "likely_rideable", "likely_muddy", "muddy"}
            /\ (c = "rideable") <=> ClaimAbove(h, 3, e)
            /\ (c = "likely_rideable") <=> (ClaimAbove(h, 2, e) /\ ClaimAtMost(h, 3, e))
            /\ (c = "likely_muddy") <=> (ClaimAbove(h, 1, e) /\ ClaimAtMost(h, 2, e))
            /\ (c = "muddy") <=> ClaimAtMost(h, 1, e)

\* C2: whenever the seasonal access evaluator reports closed, the prediction
\* is closed with confidence 100, hours_since_rain 0 and effective_dry_hours
\* 0, whatever the weather, and no weather-based value is computed.
C2_ClosedShortCircuits ==
    (Done /\ isSeasonallyClosed(trail.access, trail.elevation_min, clock.closure)) =>
        /\ Returned.condition = "closed"
        /\ Returned.confidence = 100
        /\ Returned.hours_since_rain = 0
        /\ Returned.effective_dry_hours = Some(0)
        /\ locals = None

\* C2 witness: a trail closed by the "seasonally" heuristic on a window whose
\* temperatures are below freezing, which would otherwise be snow.
C2_Witness ==
    /\ Done
    /\ trail.access = Some(TxtSeasonally)
    /\ Returned.condition = "closed"
    /\ weather # <<>>
    /\ \A i \in 1..Len(weather) : weather[i].temp_max_c < 0

\* The snow predicate as the claim states it, on the corrected average
\* temperature t (a fraction of tenths of a degree), the 0-indexed month and
\* the trail elevation in metres.
ClaimSnow(t, month, elevation) ==
    LET winter == month \in {10, 11, 0, 1, 2, 3}
        feet == elevation * 328084
    IN  \/ t.num < 0
        \/ (winter /\ feet > 11000 * 100000)
        \/ (winter /\ feet > 9500 * 100000 /\ t.num < 50 * t.den)

ClaimAspectMod(aspect) ==
    CASE aspect = Some("S") -> 60
      [] aspect \in {Some("SE"), Some("SW")} -> 70
      [] aspect \in {Some("E"), Some("W")} -> 85
      [] aspect \in {Some("NE"), Some("NW")} -> 110
      [] aspect = Some("N") -> 130
      [] OTHER -> 100

\* The elevation modifier as the claim states it, in tenths.
ClaimElevMod(elevation) ==
    IF elevation # None /\ Val(elevation) > 2438 THEN 12 ELSE 10

\* n is the integer nearest to product / 10000, a half rounded up.
ClaimRounds(product, n) ==
    2 * product >= 20000 * n - 10000 /\ 2 * product < 20000 * n + 10000

\* The trail of the worked example: Well drained, S-facing, at 1700 m.
ClaimExampleTrail ==
    /\ trail.soil_drainage_class = Some("Well drained")
    /\ trail.dominant_aspect = Some("S")
    /\ trail.elevation_min = Some(1700)
    /\ trail.base_dry_hours = None

ClaimConfidence(t) ==
    Min(100, 50 + (IF t.soil_drainage_class # None THEN 25 ELSE 0)
                + (IF t.dominant_aspect # None THEN 10 ELSE 0)
                + (IF t.elevation_min # None THEN 10 ELSE 0))

\* The trail with one more optional attribute known.
ClaimMoreKnown(t) ==
    {[t EXCEPT !.soil_drainage_class = Some("Well drained")],
     [t EXCEPT !.dominant_aspect = Some("S")],
     [t EXCEPT !.elevation_min = Some(1700)]}

\* C6: a non-closed prediction's confidence is min(100, 50 + 25 for a known
\* soil class + 10 for a known aspect + 10 for a known elevation_min); it
\* lies in 50..100, does not fall when an unknown attribute becomes known,
\* and is the same on every other weather window.
C6_Confidence ==
    (Done /\ Returned.condition # "closed") =>
        /\ Returned.confidence = ClaimConfidence(trail)
        /\ Returned.confidence \in 50..100
        /\ \A t \in ClaimMoreKnown(trail) :
               LET r == predictTrailCondition(t, weather, clock, tz).returned
               IN  r.condition # "closed" => r.confidence >= Returned.confidence
        /\ \A sh \in {ShapeEmpty, ShapeRainToday} :
               predictTrailCondition(trail, WindowOf(sh, -50, DayOf(clock.closure)),
                                     clock, tz).returned.confidence
                   = Returned.confidence

\* C6 witness: a trail at elevation 0 with soil and aspect unknown, which is
\* snow and has confidence 60.
C6_Witness ==
    /\ Done
    /\ trail.elevation_min = Some(0)
    /\ trail.soil_drainage_class = None
    /\ trail.dominant_aspect = None
    /\ Returned.condition = "snow"
    /\ Returned.confidence = 60

\* The base dry hours the claim gives a soil class.
ClaimBaseDryHours(soil) ==
    CASE soil = Some("Excessively drained") -> 6
      [] soil = Some("Well drained") -> 24
      [] soil = Some("Moderately well drained") -> 48
      [] soil = Some("Somewhat poorly drained") -> 72
      [] soil = Some("Poorly drained") -> 120
      [] soil = Some("Very poorly drained") -> 168
      [] OTHER -> 48

\* C7: without a precomputed base_dry_hours the base is the table value of
\* the soil class, and 48 for null and for any class outside the table; it
\* is always a number.
C7_BaseFromSoilTable ==
    (Done /\ locals # None /\ trail.base_dry_hours = None) =>
        Val(locals).baseDryHours = Some(ClaimBaseDryHours(trail.soil_drainage_class))

\* C8: a base_dry_hours that is present is the base used, whatever the soil
\* class; zero is not taken for absent.
C8_PresentBaseIsAuthoritative ==
    (Done /\ locals # None /\ trail.base_dry_hours # None) =>
        Val(locals).baseDryHours = trail.base_dry_hours

\* The hours the claim gives a window read at time now: from noon of the
\* latest day at or above 2.5 mm, rounded to the nearest hour and never
\* negative; 24 per entry when no day is.
ClaimHoursSinceRain(w, now) ==
    LET rainy == {i \in 1..Len(w) : w[i].precipitation_mm >= 25}
    IN  IF rainy = {} THEN Len(w) * 24
        ELSE LET latest == CHOOSE i \in rainy : \A j \in rainy : w[j].date <= w[i].date
                 sinceNoon == now - (Days(w[latest].date) + Hours(12))
                 nearest == CHOOSE n \in -100..400 :
                                2 * n - 1 <= sinceNoon /\ sinceNoon < 2 * n + 1
             IN  IF nearest < 0 THEN 0 ELSE nearest

\* C5: hours_since_rain is max(0, round(hours from noon of D to now)) for the
\* latest day D at or above 2.5 mm, whatever the order of the window, and
\* 24 times the number of entries when no day reaches 2.5 mm.
C5_HoursSinceRain ==
    (Done /\ locals # None) =>
        Returned.hours_since_rain = ClaimHoursSinceRain(weather, clock.rain)

\* The date ranges of the access texts, open date not after close date:
\* <<open month, open day, close month, close day>>.
ClaimRange(access) ==
    CASE access = Some(TxtMayNov) -> <<5, 1, 11, 30>>
      [] access = Some(TxtOpenMayNov) -> <<5, 1, 11, 30>>
      [] access = Some(TxtMaySepZero) -> <<5, 1, 9, 30>>
      [] access = Some(TxtJunDec) -> <<6, 16, 12, 1>>

ClaimRangeTexts ==
    {Some(TxtMayNov), Some(TxtOpenMayNov), Some(TxtMaySepZero), Some(TxtJunDec)}

\* The calendar date <<month, day>> a precedes b.
ClaimDateBefore(a, b) == a[1] < b[1] \/ (a[1] = b[1] /\ a[2] < b[2])

ClaimToday == <<GetMonth(clock.closure) + 1, GetDate(clock.closure)>>

\* C9: a trail whose access holds a date range is closed exactly when today's
\* date is before the open date or after the close date, and open on every
\* date from the open date through the close date, at any time of day.
C9_DateRangeClosure ==
    (Done /\ trail.access \in ClaimRangeTexts) =>
        LET r == ClaimRange(trail.access)
        IN  (Returned.condition = "closed")
                <=> (\/ ClaimDateBefore(ClaimToday, <<r[1], r[2]>>)
                     \/ ClaimDateBefore(<<r[3], r[4]>>, ClaimToday))

\* C10: null, empty and blank access is not closed; "no" and
\* "authorized/permitted user only", trimmed and in any case, are closed on
\* every date and at every elevation; a text of no recognized pattern is
\* not closed.
C10_AccessRules ==
    Done =>
        /\ trail.access \in {None, Some(TxtEmpty), Some(TxtBlank)}
               => Returned.condition # "closed"
        /\ trail.access \in {Some(TxtNo), Some(TxtNoPadded), Some(TxtNoUpper),
                             Some(TxtAuth), Some(TxtAuthMixed)}
               => Returned.condition = "closed"
        /\ trail.access \in {Some(TxtYes), Some(TxtNoBikes), Some(TxtClosedSeasonally),
                             Some(TxtMayToNov)}
               => Returned.condition # "closed"

\* C10 witness: " No " closes a trail of unknown elevation in July.
C10_Witness ==
    /\ Done
    /\ trail.access = Some(TxtNoPadded)
    /\ trail.elevation_min = None
    /\ GetMonth(clock.closure) = 6
    /\ Returned.condition = "closed"

\* C11: a trail whose access is "seasonally" (trimmed, in any case) is closed
\* if and only if the month is November through April and elevation_min in
\* feet (metres x 3.28084) is above 9500; it is open from May through
\* October, and in any month when elevation_min is null or at most 9500 ft.
C11_SeasonallyHeuristic ==
    (Done /\ trail.access \in {Some(TxtSeasonally), Some(TxtSeasonallyPadded)}) =>
        ((Returned.condition = "closed")
            <=> (/\ ClaimToday[1] \in {11, 12, 1, 2, 3, 4}
                 /\ trail.elevation_min # None
                 /\ Val(trail.elevation_min) * 328084 > 9500 * 100000))

\* C11 witness: " Seasonally" closes a trail at 2896 m (9501 ft) on the last
\* evening of April.
C11_Witness ==
    /\ Done
    /\ trail.access = Some(TxtSeasonallyPadded)
    /\ trail.elevation_min = Some(2896)
    /\ ClaimToday = <<4, 30>>
    /\ Returned.condition = "closed"

\* Equality and order of two fractions with positive denominators.
ClaimFracEq(a, b) == a.num * b.den = b.num * a.den
ClaimFracLeq(a, b) == a.num * b.den <= b.num * a.den

\* The trail elevation the claim corrects for: elevation_min, and the station
\* elevation when it is unknown.
ClaimTrailElevation(t, stationElevation) ==
    IF t.elevation_min # None THEN Val(t.elevation_min) ELSE stationElevation

\* station - max(0, elevation - stationElevation) / 1000 x 6.5, in tenths of
\* a degree, for a station average given as a fraction.
ClaimCorrected(station, elevation, stationElevation) ==
    LET diff == IF elevation > stationElevation THEN elevation - stationElevation ELSE 0
    IN  [num |-> 1000 * station.num - diff * 65 * station.den,
         den |-> 1000 * station.den]

\* C12: the corrected temperature is the station average minus
\* max(0, trail elevation - station elevation) / 1000 x 6.5; it is never
\* above the station average, and it is the station average itself when the
\* trail is at or below the station and when the trail elevation is unknown.
C12_LapseCorrection ==
    (Done /\ locals # None) =>
        LET l == Val(locals)
            station == calculateAvgTemp(weather, 3)
            elevation == ClaimTrailElevation(trail, l.stationElevation)
        IN  /\ ClaimFracEq(l.avgTemp, ClaimCorrected(station, elevation, l.stationElevation))
            /\ ClaimFracLeq(l.avgTemp, station)
            /\ elevation <= l.stationElevation => ClaimFracEq(l.avgTemp, station)
            /\ trail.elevation_min = None => ClaimFracEq(l.avgTemp, station)

\* C12 witness: a trail at 3353 m under the front_range station (1800 m),
\* whose corrected temperature is below the station average.
C12_Witness ==
    /\ Done
    /\ locals # None
    /\ trail.elevation_min = Some(3353)
    /\ Val(locals).stationElevation = 1800
    /\ ~ClaimFracLeq(calculateAvgTemp(weather, 3), Val(locals).avgTemp)

\* The entries of w that have fewer than 3 later-dated entries: the 3 most
\* recent days, or all of them when there are fewer.
ClaimMostRecent(w) ==
    {i \in 1..Len(w) : Cardinality({j \in 1..Len(w) : w[j].date > w[i].date}) < 3}

RECURSIVE ClaimSumTemps(_, _)
ClaimSumTemps(w, S) ==
    IF S = {} THEN 0
    ELSE LET i == CHOOSE x \in S : TRUE
         IN  w[i].temp_max_c + ClaimSumTemps(w, S \ {i})

\* The station average the claim gives a window, a fraction of tenths of a
\* degree.
ClaimStationAvg(w) ==
    IF w = <<>> THEN [num |-> 150, den |-> 1]
    ELSE [num |-> ClaimSumTemps(w, ClaimMostRecent(w)),
          den |-> Cardinality(ClaimMostRecent(w))]

ClaimTempMod(t) ==
    CASE t.num > 200 * t.den -> 7
      [] t.num > 100 * t.den /\ t.num <= 200 * t.den -> 10
      [] t.num > 0 /\ t.num <= 100 * t.den -> 15
      [] t.num <= 0 -> 30

\* C14: the temperature modifier is 0.7 for a corrected temperature t > 20,
\* 1.0 for 10 < t <= 20, 1.5 for 0 < t <= 10 and 3.0 for t <= 0; exactly 20,
\* 10 and 0 give 1.0, 1.5 and 3.0.
C14_TemperatureModifier ==
    (Done /\ locals # None) =>
        LET l == Val(locals)
        IN  /\ l.tempMod = ClaimTempMod(l.avgTemp)
            /\ l.avgTemp.num = 200 * l.avgTemp.den => l.tempMod = 10
            /\ l.avgTemp.num = 100 * l.avgTemp.den => l.tempMod = 15
            /\ l.avgTemp.num = 0 => l.tempMod = 30

\* C14 witness: a corrected temperature of exactly 20 degrees, whose
\* modifier is 1.0.
C14_Witness ==
    /\ Done
    /\ locals # None
    /\ Val(locals).avgTemp.num = 200 * Val(locals).avgTemp.den
    /\ Val(locals).tempMod = 10

\* C15: whenever the snow override fires for a non-closed trail the
\* prediction is snow with the fixed confidence 90, whatever optional
\* attributes the trail has.
C15_SnowConfidenceFixed ==
    (Done /\ locals # None /\ Val(locals).isSnow) =>
        /\ Returned.condition = "snow"
        /\ Returned.confidence = 90

\* C15, amended: whenever the snow override fires for a non-closed trail the
\* prediction is snow with the confidence of the general formula, 50 + 25
\* for a known soil class + 10 for a known aspect + 10 for a known
\* elevation_min, which is never 90.
C15_SnowConfidenceByFormula ==
    (Done /\ locals # None /\ Val(locals).isSnow) =>
        /\ Returned.condition = "snow"
        /\ Returned.confidence = ClaimConfidence(trail)
        /\ Returned.confidence \in {50, 60, 70, 75, 85, 95}

\* C15 witness: the snow override fires by elevation alone (January, above
\* 11000 ft, a corrected temperature above 5 degrees) for a trail with every
\* attribute known, and the confidence is 95.
C15_Witness ==
    /\ Done
    /\ locals # None
    /\ Val(locals).isSnow
    /\ TempAbove(Val(locals).avgTemp, 5)
    /\ trail.soil_drainage_class # None
    /\ trail.dominant_aspect # None
    /\ Returned.condition = "snow"
    /\ Returned.confidence = 95

\* The window of the same dates and temp_max_c whose every day keeps its
\* side of the 2.5 mm threshold with another amount (0 or 2.5 mm), and with
\* other temp_min_c and humidity_pct.
ClaimSameRainDays(w) ==
    [i \in 1..Len(w) |->
        [date |-> w[i].date,
         temp_max_c |-> w[i].temp_max_c,
         precipitation_mm |-> IF w[i].precipitation_mm >= 25 THEN 25 ELSE 0,
         temp_min_c |-> -400,
         humidity_pct |-> 100]]

\* C16: the precipitation total is no classification input: a window with
\* the same dates and temp_max_c that agrees day by day on whether
\* precipitation_mm is at or above 2.5 gets the same condition, confidence,
\* hours_since_rain and effective_dry_hours, whatever its amounts,
\* temp_min_c and humidity_pct.
C16_PrecipTotalNotAnInput ==
    Done =>
        predictTrailCondition(trail, ClaimSameRainDays(weather), clock, tz).returned
            = Returned

\* C16 witness: a window with a day of 2.4 mm and a day of 10 mm, whose total
\* differs from that of the window it is compared with.
C16_Witness ==
    /\ Done
    /\ \E i, j \in 1..Len(weather) :
           weather[i].precipitation_mm = 24 /\ weather[j].precipitation_mm = 100
    /\ calculateRecentPrecip(weather, 7) # calculateRecentPrecip(ClaimSameRainDays(weather), 7)
    /\ Returned.hours_since_rain > 0

\* The predictions of the run that carry label c, and the sum of the
\* summary counts.
ClaimCarrying(c) ==
    Cardinality({k \in 1..Len(run.predictions) : run.predictions[k].condition = c})

RECURSIVE ClaimSumCounts(_, _)
ClaimSumCounts(counts, S) ==
    IF S = {} THEN 0
    ELSE LET c == CHOOSE x \in S : TRUE
         IN  counts[c] + ClaimSumCounts(counts, S \ {c})

\* C20: the batch runner produces exactly one prediction per input trail, in
\* input order; after any prefix of k trails the summary counts sum to k; at
\* the end each label's count is the number of predictions carrying the
\* label, the counts sum to total_trails, and the unknown count is 0.
C20_BatchCounts ==
    /\ Len(run.predictions) <= Len(run.trails)
    /\ \A k \in 1..Len(run.predictions) : run.predictions[k].id = run.trails[k].id
    /\ ClaimSumCounts(run.conditionCounts, Labels) = Len(run.predictions)
    /\ pc = "finished" =>
           LET out == Val(run.output)
           IN  /\ Len(out.trails) = Len(run.trails)
               /\ \A k \in 1..Len(run.trails) : out.trails[k].id = run.trails[k].id
               /\ \A c \in Labels : out.summary[c] = ClaimCarrying(c)
               /\ ClaimSumCounts(out.summary, Labels) = out.total_trails
               /\ out.total_trails = Len(run.trails)
               /\ out.summary["unknown"] = 0

\* C20 witness: a finished run of at least two trails, one closed and one
\* not, whose summary counts both.
C20_Witness ==
    /\ pc = "finished"
    /\ Len(run.trails) >= 2
    /\ Val(run.output).summary["closed"] >= 1
    /\ \E c \in Labels \ {"closed"} : Val(run.output).summary[c] >= 1
    /\ Val(run.output).total_trails = Len(run.trails)

\* The window the run hands trail row t, and the four prediction fields of
\* a row of the run's predictions.
ClaimWindowOf(t) ==
    RegionWeather(run.weatherByRegion, getNearestRegion(t.centroid_lat, t.centroid_lon))

ClaimFields(row) ==
    [condition |-> row.condition, confidence |-> row.confidence,
     hours_since_rain |-> row.hours_since_rain,
     effective_dry_hours |-> row.effective_dry_hours]

ClaimSameAttributes(a, b) ==
    /\ a.soil_drainage_class = b.soil_drainage_class
    /\ a.dominant_aspect = b.dominant_aspect
    /\ a.elevation_min = b.elevation_min
    /\ a.base_dry_hours = b.base_dry_hours
    /\ a.access = b.access
    /\ a.centroid_lat = b.centroid_lat
    /\ a.centroid_lon = b.centroid_lon

\* Every prediction made so far is the classifier's value at the one
\* instant now.
ClaimAllAsAt(now) ==
    \A k \in 1..Len(run.predictions) :
        ClaimFields(run.predictions[k])
            = predictTrailCondition(run.trails[k], ClaimWindowOf(run.trails[k]),
                                    Steady(now), tz).returned

\* C17: within one batch run "now" is sampled once and held constant: every
\* trail, and every helper called for one trail, sees the same instant, so
\* the predictions of a run are those of one instant, and two trails with
\* identical attributes and the same window get identical predictions.
C17_NowSampledOnce ==
    /\ \E now \in run.startedAt..(run.startedAt + MaxDrift) : ClaimAllAsAt(now)
    /\ \A j, k \in 1..Len(run.predictions) :
           (/\ ClaimSameAttributes(run.trails[j], run.trails[k])
            /\ ClaimWindowOf(run.trails[j]) = ClaimWindowOf(run.trails[k]))
           => ClaimFields(run.predictions[j]) = ClaimFields(run.predictions[k])

C19_AlwaysAResult ==
    Done =>
        /\ pred # None
        /\ Returned.condition \in Labels \ {"unknown"}
        /\ Returned.confidence \in 0..100
        /\ Returned.hours_since_rain \in Int
        /\ Returned.effective_dry_hours # None
        /\ Val(Returned.effective_dry_hours) \in Int

\* The position of region id in the table, and the square of its distance
\* to the point (lat, lon).
ClaimIndexOf(id) == CHOOSE k \in 1..Len(Regions) : Regions[k].id = id

ClaimDistSquared(lat, lon, k) ==
    (lat - Regions[k].lat) * (lat - Regions[k].lat)
        + (lon - Regions[k].lon) * (lon - Regions[k].lon)

\* C21: getNearestRegion always returns a configured region; no configured
\* region is closer to the point, in Euclidean distance over raw lat/lon;
\* of several equally close regions it returns the first of the table; and
\* it returns front_range when a coordinate is not a number.
C21_NearestRegion ==
    pc = "located" =>
        /\ \E k \in 1..Len(Regions) : Regions[k].id = Val(pred)
        /\ (trail.centroid_lat = None \/ trail.centroid_lon = None)
               => Val(pred) = "front_range"
        /\ (trail.centroid_lat # None /\ trail.centroid_lon # None) =>
               LET lat == Val(trail.centroid_lat)
                   lon == Val(trail.centroid_lon)
                   r == ClaimIndexOf(Val(pred))
               IN  /\ \A k \in 1..Len(Regions) :
                          ClaimDistSquared(lat, lon, r) <= ClaimDistSquared(lat, lon, k)
                   /\ \A k \in 1..(r - 1) :
                          ClaimDistSquared(lat, lon, r) < ClaimDistSquared(lat, lon, k)

\* C21 witness: the point midway between the durango and telluride centres,
\* for which durango, the earlier of the two in the table, is returned.
C21_Witness ==
    /\ pc = "located"
    /\ trail.centroid_lat = Some(37610)
    /\ trail.centroid_lon = Some(-107845)
    /\ ClaimDistSquared(37610, -107845, ClaimIndexOf("durango"))
           = ClaimDistSquared(37610, -107845, ClaimIndexOf("telluride"))
    /\ Val(pred) = "durango"

\* The window the claim gives the trail the loop handled last: that of its
\* nearest region when the region has a weather record, else that of
\* front_range, else the empty window.
ClaimRegionWindow ==
    LET nearest == getNearestRegion(trail.centroid_lat, trail.centroid_lon)
        has(r) == r \in DOMAIN run.weatherByRegion /\ run.weatherByRegion[r] # <<>>
    IN  IF has(nearest) THEN run.weatherByRegion[nearest]
        ELSE IF has("front_range") THEN run.weatherByRegion["front_range"]
        ELSE <<>>

\* C22: the batch runner classifies every trail against the window of its
\* nearest region when that region has a weather record, otherwise against
\* the window of front_range, and against the empty window only when
\* neither has data; never against the window of a third region.
C22_RegionWindow ==
    (pc \in {"loop", "finished"} /\ pred # None) =>
        /\ weather = ClaimRegionWindow
        /\ Returned = predictTrailCondition(trail, ClaimRegionWindow, clock, tz).returned
        /\ weather = <<>> =>
               /\ getNearestRegion(trail.centroid_lat, trail.centroid_lon)
                      \notin DOMAIN run.weatherByRegion
               /\ "front_range" \notin DOMAIN run.weatherByRegion

\* C22 witness: a trail near Leadville in a run with weather for front_range
\* alone, classified against the front_range window.
C22_Witness ==
    /\ pc \in {"loop", "finished"}
    /\ pred # None
    /\ getNearestRegion(trail.centroid_lat, trail.centroid_lon) = "leadville"
    /\ DOMAIN run.weatherByRegion = {"front_range"}
    /\ weather = run.weatherByRegion["front_range"]
    /\ weather # <<>>

\* The sum of precipitation_mm over the at most 7 most recent entries of w.
ClaimRecentPrecip(w) ==
    LET recent == {i \in 1..Len(w) :
                      Cardinality({j \in 1..Len(w) : w[j].date > w[i].date}) < 7}
        sum[S \in SUBSET recent] ==
            IF S = {} THEN 0
            ELSE LET i == CHOOSE x \in S : TRUE
                 IN  w[i].precipitation_mm + sum[S \ {i}]
    IN  sum[recent]

\* C23: every prediction, closed, snow or other, carries the factors record:
\* soil, aspect, elevation_min and elevation_max are the trail's, nulls
\* passed through; recent_precip_mm is the precipitation of the 7 most
\* recent entries of the window used; base_dry_hours is the base from which
\* effective_dry_hours was computed.
C23_Factors ==
    (pc \in {"loop", "finished"} /\ pred # None) =>
        LET f == run.predictions[Len(run.predictions)].factors
        IN  /\ f.soil = trail.soil_drainage_class
            /\ f.aspect = trail.dominant_aspect
            /\ f.elevation_min = trail.elevation_min
            /\ f.elevation_max = trail.elevation_max
            /\ f.recent_precip_mm = ClaimRecentPrecip(weather)
            /\ locals # None => Val(locals).baseDryHours = Some(f.base_dry_hours)

\* C24: a date range whose close date precedes its open date in the
\* calendar year ("11/1-3/31") does not wrap around the end of the year:
\* the trail is closed on every date, the dates from November to March
\* included.
C24_YearWrapAlwaysClosed ==
    (Done /\ trail.access = Some(TxtNovMar)) =>
        /\ isSeasonallyClosed(trail.access, trail.elevation_min, clock.closure)
        /\ Returned.condition = "closed"

\* C24 witness: "11/1-3/31" on December 15 and on February 1, inside the
\* season the range names, is closed.
C24_Witness ==
    /\ Done
    /\ trail.access = Some(TxtNovMar)
    /\ ClaimToday \in {<<12, 15>>, <<2, 1>>}
    /\ Returned.condition = "closed"

\* The region whose window the loop handed the trail it handled last (the
\* window is not empty).
ClaimSupplier ==
    LET nearest == getNearestRegion(trail.centroid_lat, trail.centroid_lon)
    IN  IF nearest \in DOMAIN run.weatherByRegion THEN nearest ELSE "front_range"

\* C25: the station elevation the lapse-rate correction starts from is that
\* of the region whose weather window supplies the trail's temperatures,
\* also when the window is the default region's because the nearest region
\* has no weather.
C25_BaselineOfSupplier ==
    (pc \in {"loop", "finished"} /\ pred # None /\ locals # None /\ weather # <<>>) =>
        /\ weather = run.weatherByRegion[ClaimSupplier]
        /\ Some(Val(locals).stationElevation) = STATION_ELEVATIONS(ClaimSupplier)

\* C26: a trail whose elevation_min is null meets no elevation-dependent
\* clause: "seasonally" does not close it, its elevation modifier is 1.0,
\* its lapse correction is zero, and it is snow only through a corrected
\* temperature below 0, in every month and whichever region is nearest.
C26_UnknownElevation ==
    (Done /\ trail.elevation_min = None) =>
        /\ trail.access = Some(TxtSeasonally) => Returned.condition # "closed"
        /\ locals # None =>
               /\ Val(locals).elevMod = 10
               /\ ClaimFracEq(Val(locals).avgTemp, Val(locals).stationAvgTemp)
               /\ Returned.condition = "snow" => Val(locals).avgTemp.num < 0

\* The order of the dryness labels.
ClaimRank(c) ==
    CASE c = "muddy" -> 1
      [] c = "likely_muddy" -> 2
      [] c = "likely_rideable" -> 3
      [] c = "rideable" -> 4

\* The entries of w at or above 2.5 mm, and the latest of them.
ClaimRainy(w) == {i \in 1..Len(w) : w[i].precipitation_mm >= 25}
ClaimLatestRain(w) ==
    CHOOSE i \in ClaimRainy(w) : \A j \in ClaimRainy(w) : w[j].date <= w[i].date

\* The window w with its most recent significant-rain day one day further
\* into the past: the entry takes the date of the day before, and trades
\* its precipitation with the entry of that date when there is one.
ClaimRainMovedBack(w) ==
    LET i == ClaimLatestRain(w)
        before == {j \in 1..Len(w) : w[j].date = w[i].date - 1}
    IN  IF before = {}
        THEN [w EXCEPT ![i].date = @ - 1]
        ELSE LET j == CHOOSE x \in before : TRUE
             IN  [w EXCEPT ![i].precipitation_mm = w[j].precipitation_mm,
                           ![j].precipitation_mm = w[i].precipitation_mm]

\* C27: with muddy < likely_muddy < likely_rideable < rideable, for a trail
\* that is neither closed nor snow and has a positive effective_dry_hours,
\* more hours_since_rain never give a lower label, more effective_dry_hours
\* never a higher one, and moving the most recent significant-rain day one
\* day back never makes the prediction muddier.
C27_LabelMonotone ==
    (/\ Done
     /\ Returned.condition \notin {"closed", "snow"}
     /\ Returned.effective_dry_hours # None
     /\ Val(Returned.effective_dry_hours) > 0) =>
        LET h == Returned.hours_since_rain
            e == Val(Returned.effective_dry_hours)
            c == Returned.condition
        IN  /\ \A d \in 1..48 :
                   ClaimRank(Condition(FALSE, h + d, Some(e))) >= ClaimRank(c)
            /\ \A d \in 1..48 :
                   ClaimRank(Condition(FALSE, h, Some(e + d))) <= ClaimRank(c)
            /\ ClaimRainy(weather) # {} =>
                   LET moved == predictTrailCondition(trail, ClaimRainMovedBack(weather),
                                                      clock, tz).returned
                   IN  /\ moved.hours_since_rain >= h
                       /\ ClaimRank(moved.condition) >= ClaimRank(c)

\* C27 witness: a likely_muddy trail that gets a higher label when its last
\* rain day is one day older.
C27_Witness ==
    /\ Done
    /\ Returned.condition = "likely_muddy"
    /\ ClaimRainy(weather) # {}
    /\ predictTrailCondition(trail, ClaimRainMovedBack(weather), clock, tz).returned.condition
           \in {"likely_rideable", "rideable"}

\* C28: on the empty window hours_since_rain is 0, and every trail with a
\* positive base dry hours that is neither closed nor snow is muddy, with
\* the confidence of the general formula.
C28_EmptyWindow ==
    (Done /\ weather = <<>> /\ locals # None) =>
        /\ Returned.hours_since_rain = 0
        /\ (/\ Returned.condition # "snow"
            /\ Val(locals).baseDryHours # None
            /\ Val(Val(locals).baseDryHours) > 0)
           => (/\ Returned.condition = "muddy"
               /\ Returned.confidence = ClaimConfidence(trail))

\* C28 witness: a trail with every attribute known, on the empty window in
\* July, is muddy with confidence 95.
C28_Witness ==
    /\ Done
    /\ weather = <<>>
    /\ ClaimToday[1] = 7
    /\ Returned.condition = "muddy"
    /\ Returned.hours_since_rain = 0
    /\ Returned.confidence = 95

\* The success answers of one key since its current window began.
ClaimAcceptedInWindow(key) ==
    {j \in 1..Len(api.accepted) :
        /\ api.accepted[j].key = key
        /\ api.accepted[j].at >= api.rateLimitMap[key].timestamp}

ClaimReportKeys ==
    DOMAIN api.rateLimitMap \cup {api.accepted[j].key : j \in 1..Len(api.accepted)}

\* C29: under every interleaving of concurrent POST requests, a key has at
\* most RATE_LIMIT_MAX accepted reports in its rate-limit window, which
\* starts at the first accepted report; the key's count is the number of
\* reports accepted in the window (a request answered 400, 429 or 500 never
\* increments it, and the first report accepted after the window has
\* expired starts a new window with count 1).
C29_AtMostFivePerWindow ==
    api # None =>
        \A key \in ClaimReportKeys :
            /\ key \in DOMAIN api.rateLimitMap
            /\ api.rateLimitMap[key].count = Cardinality(ClaimAcceptedInWindow(key))
            /\ Cardinality(ClaimAcceptedInWindow(key)) <= RATE_LIMIT_MAX

\* The ranges are the features 0 .. upTo - 1, each once and in order.
RECURSIVE ClaimCoversFrom(_, _, _)
ClaimCoversFrom(ranges, from, upTo) ==
    IF ranges = <<>> THEN from = upTo
    ELSE /\ Head(ranges)[1] = from
         /\ Head(ranges)[2] > from
         /\ ClaimCoversFrom(Tail(ranges), Head(ranges)[2], upTo)

\* C30: the fetch can be interrupted at any point and re-run: a run that
\* is fetching at offset k holds exactly the k raw features before k (a
\* resumed run has loaded them again), and the output a run writes is built
\* from every feature of the server, none lost and none duplicated.
C30_ResumeLosesNothing ==
    etl # None =>
        /\ IsSome(etl.proc) /\ Val(etl.proc).pc = "fetch" =>
               ClaimCoversFrom(Val(etl.proc).allRawFeatures, 0, Val(etl.proc).offset)
        /\ IsSome(etl.outputFile) =>
               ClaimCoversFrom(Val(etl.outputFile), 0, etl.total)

====
